---- MODULE Spec2Model ----
(***************************************************************************)
(* Gemini interface control board: keypad scan/debounce protocol, panel    *)
(* controller, display consistency guard and row increment engine of       *)
(* firmware/geminiControlClient.c, MatrixKeypad_Module/mtrxKeypad.c and    *)
(* SevenSeg_Module/sevenSeg.c.                                             *)
(*                                                                         *)
(* The main loop is a sequence of steps (pc); the three interrupt service  *)
(* routines are atomic actions that may run between any two steps (the     *)
(* MSP430 clears GIE on ISR entry, so ISRs do not nest).  The debounce     *)
(* timer ISR runs only while the main loop dwells (polling at the top of   *)
(* the loop or inside a busy-wait delay): the shortest debounce interval   *)
(* is 300 ACLK cycles at 12 kHz = 25 ms, far longer than any straight-line *)
(* stretch of main-loop code between two dwell points.                     *)
(***************************************************************************)
EXTENDS Integers, Sequences, FiniteSets, TLC

\* ---------------------------------------------------------------- constants

OFF_CODE == 16
DASH_CODE == 17
NUM_DISPS == 8
PRESS_DBNC_DELAY == 300
RELEASE_DBNC_DELAY == 700
HUNDREDS_PLACE == 0
TENS_PLACE == 1
ONES_PLACE == 2
TENTHS_PLACE == 3
BIT7 == 128

\* sysState bit definitions (a state byte is the set of its flags that are set)
FLAG_KEYPAD_PRESS == "KEYPAD_PRESS"
FLAG_PWR_OFF == "PWR_OFF"
FLAG_RATE_EDIT == "RATE_EDIT"
FLAG_VTBI_EDIT == "VTBI_EDIT"
FLAG_PUMP_ACTIVE == "PUMP_ACTIVE"
FLAG_RATE_VALUE == "RATE_VALUE"
FLAG_VTBI_VALUE == "VTBI_VALUE"

\* LED shift register bits (an LED byte is the set of its LEDs that are lit)
LED_CONTROLLER == "CONTROLLER"
LED_PUMP == "PUMP"
LED_CC == "CC"
LED_BLANKBUTTON == "BLANKBUTTON"
LED_MONITOR == "MONITOR"
LED_SECPIGGYBACK == "SECPIGGYBACK"
LED_BATTPWR == "BATTPWR"
LED_PLUGPWR == "PLUGPWR"

\* enum GEMINI_KEYS: (column pin index << 4) | row pin index
CC_MONITOR == 64
PAUSE_STOP_DOWN == 96
PAUSE_STOP_ALT == 65
RATE == 81
VTBI == 97
START == 113
HUNDRED == 66
TEN == 82
ONE == 98
TENTH == 114
CLEAR_SILENCE == 67
PC_MODE == 83
SEC_PIGGY_BACK == 99
VOLUME_INFUSED == 115

\* geminiKeypad pin masks: rows on PORT2<3:0>, columns on PORT2<7:4>
ROW_PINS == 0 .. 3
COL_PINS == 4 .. 7

TOP_DISPS == 0 .. 3
BOT_DISPS == 4 .. 7
ALL_DISPS == 0 .. 7

\* ------------------------------------------------------------ segment codec

segCodeTable ==
  << 63, 6, 91, 79, 102, 109, 125, 7, 127, 111, 119, 124, 57, 94, 121, 113, 0, 64 >>

\* hexToSevSeg, lines 42-52: the pending pattern for a digit, decimal point and polarity
SegCode(hexDigit, dp, activeLow) ==
  LET dpBit == IF dp # 0 THEN BIT7 ELSE 0
      code  == IF hexDigit < 18 THEN dpBit + segCodeTable[hexDigit + 1] ELSE dpBit
  IN  IF activeLow # 0 THEN 255 - code ELSE code

\* hexToSevSeg: the display with its pending pattern recomputed, and convFail
HexToSevSeg(d) ==
  [disp |-> [d EXCEPT !.nextBinSegCode = SegCode(d.hexDigit, d.dp, d.activeLow)],
   convFail |-> IF d.hexDigit < 18 THEN 0 ELSE 1]

\* SevSegToHex, lines 84-152: the committed pattern without its decimal-point
\* bit, inverted as an 8-bit value for an active-low display, is looked up in
\* the cases of the switch; case 0x40 stores DASH_CODE and runs on into default
SevSegToHex(d) ==
  LET masked     == d.currBinSegCode % BIT7
      sevSegCode == IF d.activeLow # 0 THEN 255 - masked ELSE masked
      matches    == {h \in 0 .. OFF_CODE : segCodeTable[h + 1] = sevSegCode}
  IN  IF matches # {}
      THEN [disp |-> [d EXCEPT !.hexDigit = CHOOSE h \in matches : TRUE,
                               !.dp = IF d.currBinSegCode >= BIT7 THEN 1 ELSE 0],
            convFail |-> 0]
      ELSE IF sevSegCode = segCodeTable[DASH_CODE + 1]
      THEN [disp |-> [d EXCEPT !.hexDigit = DASH_CODE], convFail |-> 1]
      ELSE [disp |-> d, convFail |-> 1]

\* ------------------------------------------------- display consistency guard
\* A display bank is ds = [arr |-> sevSegDispArr, out |-> the byte last
\* shifted into each display's shift register].

WithErr(ds, e) == [arr |-> ds.arr, out |-> ds.out, err |-> e]

\* writeHexToSevSeg, lines 639-651: the display is consistent, r is the conversion
WriteConverted(ds, i, r) ==
  IF r.convFail = 0
  THEN [arr |-> [ds.arr EXCEPT ![i] =
                   [r.disp EXCEPT !.currBinSegCode = r.disp.nextBinSegCode]],
        out |-> [ds.out EXCEPT ![i] = r.disp.nextBinSegCode],
        err |-> 0]
  ELSE [arr |-> [ds.arr EXCEPT ![i] = r.disp], out |-> ds.out, err |-> 1]

\* writeHexToSevSeg without the test of line 636
WriteHexToSevSeg_NoGuard(ds, i, hexCode) ==
  WriteConverted(ds, i, HexToSevSeg([ds.arr[i] EXCEPT !.hexDigit = hexCode]))

WriteHexToSevSeg(ds, i, hexCode) ==
  IF ds.arr[i].currBinSegCode = ds.arr[i].nextBinSegCode
  THEN WriteConverted(ds, i, HexToSevSeg([ds.arr[i] EXCEPT !.hexDigit = hexCode]))
  ELSE WithErr(ds, 2)

\* writeToDispRow, lines 711-717: one pass of the loop body
WriteRowSlot(ds, i, dat) ==
  WriteHexToSevSeg([ds EXCEPT !.arr[i].dp = IF dat[2] # 0 THEN 1 ELSE 0], i, dat[1])

RECURSIVE WriteRowFrom(_, _, _, _)
WriteRowFrom(w, rowDataArr, botRow, k) ==
  IF w.err # 0 \/ k > 4 THEN w
  ELSE WriteRowFrom(WriteRowSlot(w, (k - 1) + botRow, rowDataArr[k]),
                    rowDataArr, botRow, k + 1)

WriteToDispRow(ds, rowDataArr, botRow) ==
  WriteRowFrom(WithErr(ds, 0), rowDataArr, IF botRow # 0 THEN 4 ELSE 0, 1)

\* a refresh that recomputes the pending pattern without line 975
RefreshDisp_NoCommit(d) ==
  [d EXCEPT !.nextBinSegCode = SegCode(d.hexDigit, d.dp, d.activeLow)]

\* refreshAllDisps, lines 974-975, for one display
RefreshDisp(d) ==
  [d EXCEPT !.nextBinSegCode = SegCode(d.hexDigit, d.dp, d.activeLow),
            !.currBinSegCode = SegCode(d.hexDigit, d.dp, d.activeLow)]

RefreshAllDisps(ds) ==
  [arr |-> [i \in 0 .. NUM_DISPS - 1 |-> RefreshDisp(ds.arr[i])],
   out |-> [i \in 0 .. NUM_DISPS - 1 |-> RefreshDisp(ds.arr[i]).currBinSegCode]]

\* the manual blanking write of flashDispRow / power-off: 0x00 to a set of displays
BlankDisps(ds, row) ==
  [arr |-> ds.arr, out |-> [i \in 0 .. NUM_DISPS - 1 |-> IF i \in row THEN 0 ELSE ds.out[i]]]

WriteToRowBuff(dat0, dp0, dat1, dp1, dat2, dp2, dat3, dp3) ==
  << <<dat0, dp0>>, <<dat1, dp1>>, <<dat2, dp2>>, <<dat3, dp3>> >>

BlankRowBuff == WriteToRowBuff(OFF_CODE, 0, OFF_CODE, 0, 0, 0, OFF_CODE, 0)
DashRowBuff == WriteToRowBuff(DASH_CODE, 0, DASH_CODE, 0, DASH_CODE, 0, DASH_CODE, 0)

\* ------------------------------------------------ row increment/carry engine

SetDp(a, i, v) == [a EXCEPT ![i].dp = v]
IncResult(a, idx, next) == [a |-> a, idx |-> idx, next |-> next]

\* a row is in the thousands state iff the third slot's decimal point is clear
\* and the fourth slot is not OFF (lines 814-817)
ThousandState(a, botRow) ==
  IF botRow # 0
  THEN (IF a[6].dp = 0 /\ a[7].hexDigit # OFF_CODE THEN 1 ELSE 0)
  ELSE (IF a[2].dp = 0 /\ a[3].hexDigit # OFF_CODE THEN 1 ELSE 0)

\* the index of the target digit after the thousands-state shift (lines 810, 819)
IncTargetIndex(a, digitPos, botRow) ==
  (IF botRow # 0 THEN digitPos + 4 ELSE digitPos) + ThousandState(a, botRow)

\* the read of line 820; past the end of the 8-entry array it yields whatever
\* byte lies behind the array (oob)
IncReadHex(a, i, oob) == IF i \in 0 .. NUM_DISPS - 1 THEN a[i].hexDigit ELSE oob

\* a roll-over into thousands that leaves the third display's decimal point
EnterThousands_KeepsDp(a, idx) ==
  IncResult([a EXCEPT ![idx + 3].hexDigit = a[idx + 2].hexDigit,
                      ![idx + 2].hexDigit = a[idx + 1].hexDigit,
                      ![idx + 1].hexDigit = 0],
            idx, 1)

\* lines 838-842: rolling over into thousands
EnterThousands(a, idx) ==
  IncResult([a EXCEPT ![idx + 3].hexDigit = a[idx + 2].hexDigit,
                      ![idx + 2].hexDigit = a[idx + 1].hexDigit,
                      ![idx + 2].dp = 0,
                      ![idx + 1].hexDigit = 0],
            idx, 1)

\* a roll out of the thousands state that shows a tens digit of 0 as 0
LeaveThousands_KeepsZeroTens(a, idx) ==
  IncResult([a EXCEPT ![idx].hexDigit = a[idx + 1].hexDigit,
                      ![idx + 1].hexDigit = a[idx + 2].hexDigit,
                      ![idx + 2].hexDigit = OFF_CODE],
            idx - 1, OFF_CODE)

\* lines 847-854: rolling out of the thousands state
LeaveThousands(a, idx) ==
  IncResult([a EXCEPT ![idx].hexDigit = IF a[idx + 1].hexDigit = 0 THEN OFF_CODE
                                        ELSE a[idx + 1].hexDigit,
                      ![idx + 1].hexDigit = a[idx + 2].hexDigit,
                      ![idx + 2].hexDigit = OFF_CODE],
            idx - 1, OFF_CODE)

\* lines 865-872: a plain hundreds increment
PlainHundreds(a, idx, nextHexCode) ==
  IncResult([a EXCEPT ![idx + 1].hexDigit = IF @ = OFF_CODE THEN 0 ELSE @,
                      ![idx + 2].hexDigit = IF @ = OFF_CODE THEN 0 ELSE @],
            idx, IF (nextHexCode - 1) = OFF_CODE THEN 1 ELSE nextHexCode)

\* a hundreds case without the top-row cap of lines 828-834
IncHundreds_NoCap(a, idx, nextHexCode, botRow, thousandState) ==
  IF nextHexCode > 9 /\ (nextHexCode - 1) # OFF_CODE
  THEN IF thousandState = 0
       THEN EnterThousands(a, idx)
       ELSE IF a[idx - 1].hexDigit = 9
       THEN LeaveThousands(a, idx)
       ELSE IncResult([a EXCEPT ![idx - 1].hexDigit = (@ + 1) % 256], idx, 0)
  ELSE PlainHundreds(a, idx, nextHexCode)

\* case HUNDREDS_PLACE, lines 824-874
IncHundreds(a, idx, nextHexCode, botRow, thousandState) ==
  IF nextHexCode > 9 /\ (nextHexCode - 1) # OFF_CODE
  THEN IF botRow = 0
       THEN IncResult([a EXCEPT ![idx + 1].hexDigit = IF @ = 0 THEN OFF_CODE ELSE @],
                      idx, OFF_CODE)
       ELSE IF thousandState = 0
       THEN EnterThousands(a, idx)
       ELSE IF a[idx - 1].hexDigit = 9
       THEN LeaveThousands(a, idx)
       ELSE IncResult([a EXCEPT ![idx - 1].hexDigit = (@ + 1) % 256], idx, 0)
  ELSE PlainHundreds(a, idx, nextHexCode)

\* a tens digit that wraps to 0 whatever the hundreds slot shows
IncTens_AlwaysZero(a, idx, nextHexCode) ==
  IncResult(a, idx,
            IF (nextHexCode - 1) = OFF_CODE THEN 1
            ELSE IF nextHexCode > 9 THEN 0 ELSE nextHexCode)

\* case TENS_PLACE, lines 876-884
IncTens(a, idx, nextHexCode) ==
  IncResult(a, idx,
            IF (nextHexCode - 1) = OFF_CODE THEN 1
            ELSE IF nextHexCode > 9
                 THEN (IF a[idx - 1].hexDigit = OFF_CODE THEN OFF_CODE ELSE 0)
                 ELSE nextHexCode)

\* a ones digit that blanks on the wrap the way the tenths digit does
IncOnes_WrapToOff(a, idx, nextHexCode) ==
  IncResult(a, idx, IF nextHexCode > 9 THEN OFF_CODE ELSE nextHexCode)

\* case ONES_PLACE, lines 886-889
IncOnes(a, idx, nextHexCode) ==
  IncResult(a, idx, IF nextHexCode > 9 THEN 0 ELSE nextHexCode)

\* a shift out of the thousands state that copies the tens digit as it is
TenthsShiftTo_PlainCopy(a, idx, h) ==
  [a EXCEPT ![idx - 3].hexDigit = h,
            ![idx - 2].hexDigit = a[idx - 1].hexDigit,
            ![idx - 1].hexDigit = a[idx].hexDigit]

\* lines 896-909: leaving the thousands state on a tenths press; idx is the
\* fourth slot, h the new hundreds digit
TenthsShiftTo(a, idx, h) ==
  [a EXCEPT ![idx - 3].hexDigit = h,
            ![idx - 2].hexDigit = IF a[idx - 1].hexDigit = 0
                                  THEN (IF h = OFF_CODE THEN OFF_CODE ELSE 0)
                                  ELSE a[idx - 1].hexDigit,
            ![idx - 1].hexDigit = a[idx].hexDigit]

TenthsShift(a, idx) ==
  TenthsShiftTo(a, idx, IF a[idx - 2].hexDigit = 0 THEN OFF_CODE ELSE a[idx - 2].hexDigit)

\* a tenths digit that blanks past 9 without line 921
TenthsDigit_KeepsDp(b, idx, nextHexCode, thousandState) ==
  IF (nextHexCode - 1) = OFF_CODE \/ thousandState # 0
  THEN IncResult(SetDp(b, idx - 1, 1), idx, 1)
  ELSE IF nextHexCode > 9
  THEN IncResult(b, idx, OFF_CODE)
  ELSE IncResult(b, idx, nextHexCode)

\* a tenths digit that appears without the decimal point of line 915
TenthsDigit_NoDp(b, idx, nextHexCode, thousandState) ==
  IF (nextHexCode - 1) = OFF_CODE \/ thousandState # 0
  THEN IncResult(b, idx, 1)
  ELSE IF nextHexCode > 9
  THEN IncResult(SetDp(b, idx - 1, 0), idx, OFF_CODE)
  ELSE IncResult(b, idx, nextHexCode)

\* lines 912-922: b is the row after any shift, idx the fourth slot
TenthsDigit(b, idx, nextHexCode, thousandState) ==
  IF (nextHexCode - 1) = OFF_CODE \/ thousandState # 0
  THEN IncResult(SetDp(b, idx - 1, 1), idx, 1)
  ELSE IF nextHexCode > 9
  THEN IncResult(SetDp(b, idx - 1, 0), idx, OFF_CODE)
  ELSE IncResult(b, idx, nextHexCode)

\* case TENTHS_PLACE, lines 891-923
IncTenths(a, idx0, nextHexCode, thousandState) ==
  IF thousandState # 0
  THEN TenthsDigit(TenthsShift(a, idx0 - 1), idx0 - 1, nextHexCode, thousandState)
  ELSE TenthsDigit(a, idx0, nextHexCode, thousandState)

\* the switch of lines 822-924
IncDigits(a, digitPos, botRow, thousandState, dispRowIndex, nextHexCode) ==
  CASE digitPos = HUNDREDS_PLACE ->
         IncHundreds(a, dispRowIndex, nextHexCode, botRow, thousandState)
    [] digitPos = TENS_PLACE -> IncTens(a, dispRowIndex, nextHexCode)
    [] digitPos = ONES_PLACE -> IncOnes(a, dispRowIndex, nextHexCode)
    [] OTHER -> IncTenths(a, dispRowIndex, nextHexCode, thousandState)

\* lines 927-928: write the target slot, then refresh every display
IncRefresh(w) == WithErr(RefreshAllDisps(w), w.err)
IncWrite(out, r) == IncRefresh(WriteHexToSevSeg([arr |-> r.a, out |-> out], r.idx, r.next))

IncAt(ds, digitPos, botRow, dispRowIndex, oob) ==
  IncWrite(ds.out,
           IncDigits(ds.arr, digitPos, botRow, ThousandState(ds.arr, botRow), dispRowIndex,
                     (IncReadHex(ds.arr, dispRowIndex, oob) + 1) % 256))

IncDispRow(ds, digitPos, botRow, oob) ==
  IF digitPos <= TENTHS_PLACE
  THEN IncAt(ds, digitPos, botRow, IncTargetIndex(ds.arr, digitPos, botRow), oob)
  ELSE WithErr(ds, 3)

\* ------------------------------------------------------------------- bounds

\* physical key presses and power-button presses the user makes in one run
MaxKeyPresses == 2
MaxPwrPresses == 2
\* keys handled one after the other before a run of the panel specification starts
MaxHistory == 3
\* in the increment specification: presses of keys other than the numeric ones,
\* and the value (in tenths) the row that is not being edited may show while
\* numeric keys are pressed
MaxModeKeys == 1
MaxOtherRowTenths == 0

\* -------------------------------------------------------------------- state

VARIABLES
  currSysState, prevSysState,     \* volatile flag bytes shared with the ISRs
  currKeyCoord, pendingKeyCoord,  \* geminiKeypad.currKeyCoord, pendingKeyCoord
  rowIE, rowIES, rowIFG,          \* keypad row port: interrupt enable, edge select (TRUE = H->L), flag
  TA0CCR0,                        \* debounce timer compare register (0 = stopped)
  pwrIE, pwrIFG,                  \* power button pin: interrupt enable, flag
  sevSegDispArr, dispOut,         \* the 8 display objects; the byte each display shows
  nextLedSRState, currLedSRState, \* desired / committed LED pattern
  ledOut,                         \* the pattern the LED shift register shows
  pc,                             \* position of the main loop
  flashRow, flashLeft, flashRet,  \* flashDispRow in progress: displays, flashes left, caller
  keyDown, pwrBtnDown,            \* the physical key held down (or NoKey); power button held
  nKeyPress, nPwrPress,           \* presses made so far
  acceptedEdge,                   \* history: the debounced edge the main loop has not yet acted
                                  \* on ("press", "release" or "none")
  csPortIndex, hexCode, errorCode,\* writeHexToSevSeg called on its own: the display
                                  \* addressed, the digit code passed, the value returned
  GIE                             \* the general interrupt enable bit of the status register

kpVars == << currKeyCoord, pendingKeyCoord, rowIE, rowIES, rowIFG, TA0CCR0 >>
pwrVars == << pwrIE, pwrIFG >>
dispVars == << sevSegDispArr, dispOut >>
ledVars == << nextLedSRState, currLedSRState, ledOut >>
flashVars == << flashRow, flashLeft, flashRet >>
envVars == << keyDown, pwrBtnDown, nKeyPress, nPwrPress >>
callVars == << csPortIndex, hexCode, errorCode >>
vars == << currSysState, prevSysState, kpVars, pwrVars, dispVars, ledVars, pc,
           flashVars, envVars, acceptedEdge, callVars, GIE >>

NoKey == << >>
\* the 4x4 key matrix: <<column pin index, row pin index>>
PhysKeys == COL_PINS \X ROW_PINS

XorSet(A, B) == (A \ B) \cup (B \ A)

\* (currSysState ^ prevSysState) & FLAG_KEYPAD_PRESS
KeypadEvent == FLAG_KEYPAD_PRESS \in XorSet(currSysState, prevSysState)
\* (currSysState ^ prevSysState) & FLAG_PWR_OFF
PwrEvent == FLAG_PWR_OFF \in XorSet(currSysState, prevSysState)

\* an enabled interrupt whose flag is set is served before the next main-loop step
IntPending == GIE /\ ((rowIE /\ rowIFG) \/ (pwrIE /\ pwrIFG))

\* the main loop polls or busy-waits here long enough for the debounce timer to expire
Dwell == {"poll", "flashOn", "pwrWait"}

Bank == [arr |-> sevSegDispArr, out |-> dispOut]

\* ----------------------------------------------------------------- boot

\* main() up to line 299
Init ==
  /\ currSysState = {FLAG_PWR_OFF}
  /\ prevSysState = {}
  /\ currKeyCoord = 0
  /\ pendingKeyCoord = 0
  /\ rowIE = FALSE
  /\ rowIES = FALSE
  /\ rowIFG = FALSE
  /\ TA0CCR0 = 0
  /\ pwrIE = TRUE
  /\ pwrIFG = FALSE
  /\ sevSegDispArr = [i \in 0 .. NUM_DISPS - 1 |->
        LET d == HexToSevSeg([activeLow |-> 0, hexDigit |-> DASH_CODE, dp |-> 0,
                              nextBinSegCode |-> 0, currBinSegCode |-> 0]).disp
        IN  [d EXCEPT !.currBinSegCode = d.nextBinSegCode]]
  /\ dispOut = [i \in 0 .. NUM_DISPS - 1 |-> 0]
  /\ currLedSRState = {LED_PUMP, LED_CC, LED_PLUGPWR}
  /\ nextLedSRState = {LED_PUMP, LED_CC, LED_PLUGPWR}
  /\ ledOut = {LED_PLUGPWR}
  /\ pc = "poll"
  /\ flashRow = {}
  /\ flashLeft = 0
  /\ flashRet = "none"
  /\ keyDown = NoKey
  /\ pwrBtnDown = FALSE
  /\ nKeyPress = 0
  /\ nPwrPress = 0
  /\ acceptedEdge = "none"
  /\ csPortIndex = 0
  /\ hexCode = 0
  /\ errorCode = 0
  /\ GIE = TRUE

\* ------------------------------------------------------ the user's actions

\* a key goes down: with all columns driven HIGH its row pin rises
KeyDown(k) ==
  /\ keyDown = NoKey
  /\ nKeyPress < MaxKeyPresses
  /\ keyDown' = k
  /\ nKeyPress' = nKeyPress + 1
  /\ rowIFG' = (rowIFG \/ ~rowIES)
  /\ UNCHANGED << currSysState, prevSysState, currKeyCoord, pendingKeyCoord, rowIE,
                  rowIES, TA0CCR0, pwrVars, dispVars, ledVars, pc, flashVars,
                  pwrBtnDown, nPwrPress >>
  /\ UNCHANGED << acceptedEdge, callVars, GIE >>

\* the key is let go: its row pin falls
KeyUp ==
  /\ keyDown # NoKey
  /\ keyDown' = NoKey
  /\ rowIFG' = (rowIFG \/ rowIES)
  /\ UNCHANGED << currSysState, prevSysState, currKeyCoord, pendingKeyCoord, rowIE,
                  rowIES, TA0CCR0, pwrVars, dispVars, ledVars, pc, flashVars,
                  pwrBtnDown, nKeyPress, nPwrPress >>
  /\ UNCHANGED << acceptedEdge, callVars, GIE >>

\* the power button goes down: H->L edge on its pin (edge select fixed at line 1177)
PwrDown ==
  /\ ~pwrBtnDown
  /\ nPwrPress < MaxPwrPresses
  /\ pwrBtnDown' = TRUE
  /\ nPwrPress' = nPwrPress + 1
  /\ pwrIFG' = TRUE
  /\ UNCHANGED << currSysState, prevSysState, kpVars, pwrIE, dispVars, ledVars, pc,
                  flashVars, keyDown, nKeyPress >>
  /\ UNCHANGED << acceptedEdge, callVars, GIE >>

PwrUp ==
  /\ pwrBtnDown
  /\ pwrBtnDown' = FALSE
  /\ UNCHANGED << currSysState, prevSysState, kpVars, pwrVars, dispVars, ledVars, pc,
                  flashVars, keyDown, nKeyPress, nPwrPress >>
  /\ UNCHANGED << acceptedEdge, callVars, GIE >>

\* ------------------------------------------------ interrupt service routines

\* keypadPressISR, row-pin branch
KeypadPressISR ==
  /\ GIE /\ rowIE /\ rowIFG
  /\ rowIE' = FALSE
  /\ rowIFG' = FALSE
  /\ TA0CCR0' = IF FLAG_KEYPAD_PRESS \in currSysState
                THEN RELEASE_DBNC_DELAY ELSE PRESS_DBNC_DELAY
  /\ UNCHANGED << currSysState, prevSysState, currKeyCoord, pendingKeyCoord, rowIES,
                  pwrVars, dispVars, ledVars, pc, flashVars, envVars >>
  /\ UNCHANGED << acceptedEdge, callVars, GIE >>

\* timer0A0ISR: the armed debounce timer expires
Timer0A0ISR ==
  /\ GIE /\ TA0CCR0 # 0
  /\ pc \in Dwell
  /\ prevSysState' = IF FLAG_KEYPAD_PRESS \in currSysState
                     THEN prevSysState \cup {FLAG_KEYPAD_PRESS}
                     ELSE prevSysState \ {FLAG_KEYPAD_PRESS}
  /\ currSysState' = XorSet(currSysState, {FLAG_KEYPAD_PRESS})
  /\ TA0CCR0' = 0
  /\ UNCHANGED << currKeyCoord, pendingKeyCoord, rowIE, rowIES, rowIFG, pwrVars,
                  dispVars, ledVars, pc, flashVars, envVars >>
  /\ acceptedEdge' = IF FLAG_KEYPAD_PRESS \in currSysState THEN "release" ELSE "press"
  /\ UNCHANGED << callVars, GIE >>

\* pwrbtnPressISR, power-button branch, with disableKeypad inlined
PwrbtnPressISR ==
  /\ GIE /\ pwrIE /\ pwrIFG
  /\ TA0CCR0' = 0
  /\ prevSysState' = prevSysState \ {FLAG_KEYPAD_PRESS}
  /\ currSysState' = XorSet(currSysState \ {FLAG_KEYPAD_PRESS}, {FLAG_PWR_OFF})
  /\ rowIE' = FALSE
  /\ rowIES' = FALSE
  /\ rowIFG' = FALSE
  /\ pwrIE' = FALSE
  /\ pwrIFG' = FALSE
  /\ UNCHANGED << currKeyCoord, pendingKeyCoord, dispVars, ledVars, pc, flashVars,
                  envVars >>
  /\ UNCHANGED << acceptedEdge, callVars, GIE >>

\* ---------------------------------------------------------- keypad module

\* the row pins that read HIGH while only column pin col is driven HIGH
RowIn(key, col) == IF key # NoKey /\ key[1] = col THEN {key[2]} ELSE {}

\* the inner loop of scanForKeyPress: lowest row pin of the mask that reads HIGH
RECURSIVE ScanRows(_, _, _)
ScanRows(key, col, rowPinIndex) ==
  IF rowPinIndex >= 8 THEN -1
  ELSE IF rowPinIndex \in ROW_PINS /\ rowPinIndex \in RowIn(key, col)
       THEN rowPinIndex
       ELSE ScanRows(key, col, rowPinIndex + 1)

\* the column loop of scanForKeyPress (lines 106-130)
RECURSIVE ScanCols(_, _)
ScanCols(key, colPinIndex) ==
  IF colPinIndex >= 8 THEN [scanError |-> 1, coord |-> 0]
  ELSE IF colPinIndex \notin COL_PINS THEN ScanCols(key, colPinIndex + 1)
  ELSE IF (RowIn(key, colPinIndex) \cap ROW_PINS) # {}
          /\ ScanRows(key, colPinIndex, 0) >= 0
       THEN [scanError |-> 0, coord |-> colPinIndex * 16 + ScanRows(key, colPinIndex, 0)]
       ELSE ScanCols(key, colPinIndex + 1)

ScanForKeyPress(key) == ScanCols(key, 0)

\* ----------------------------------------------------------- panel keys
\* The effect of one case of the switch at line 331 on the panel flags, the
\* display bank and the desired LED pattern; flashN > 0 asks for a flash of
\* flashRow, maskIE tells that row interrupts are masked until after the flash.

TOP_ROW == 0
BOT_ROW == 1

KeyResult(sys, ds, nled, row, n, mask) ==
  [sys |-> sys, bank |-> ds, nled |-> nled, flashRow |-> row, flashN |-> n, maskIE |-> mask]

NoEffect(sys, ds, nled) == KeyResult(sys, ds, nled, {}, 0, FALSE)

CcMonitorKey(sys, ds, nled, cled) ==
  IF FLAG_PUMP_ACTIVE \in sys THEN NoEffect(sys, ds, nled)
  ELSE LET cc == cled \cap {LED_CC}
           bb == cled \cap {LED_BLANKBUTTON}
           mo == cled \cap {LED_MONITOR}
       IN  IF ~(XorSet(cc, bb) # {} \/ XorSet(bb, mo) # {} \/ XorSet(cc, mo) # {})
           THEN NoEffect(sys, ds, (nled \ {LED_BLANKBUTTON, LED_MONITOR}) \cup {LED_CC})
           ELSE IF cc # {}
           THEN NoEffect(sys, ds, (nled \ {LED_CC}) \cup {LED_BLANKBUTTON})
           ELSE IF bb # {}
           THEN NoEffect(sys, ds, (nled \ {LED_BLANKBUTTON}) \cup {LED_MONITOR})
           ELSE IF mo # {}
           THEN NoEffect(sys, ds, nled \ {LED_MONITOR})
           ELSE NoEffect(sys, ds, nled)

\* PAUSE/STOP that leaves the edit states but not the PUMP ACTIVE state
PauseStopKey_KeepsPump(sys, ds, nled) ==
  KeyResult(sys \ {FLAG_RATE_EDIT, FLAG_VTBI_EDIT}, ds, nled, ALL_DISPS, 1, FALSE)

PauseStopKey(sys, ds, nled) ==
  KeyResult((sys \ {FLAG_RATE_EDIT, FLAG_VTBI_EDIT}) \ {FLAG_PUMP_ACTIVE},
            ds, nled, ALL_DISPS, 1, FALSE)

\* RATE/VTBI that writes the default row on every entry
EditKey_AlwaysInit(sys, ds, nled, botRow) ==
  LET own   == IF botRow = 0 THEN FLAG_RATE_EDIT ELSE FLAG_VTBI_EDIT
      other == IF botRow = 0 THEN FLAG_VTBI_EDIT ELSE FLAG_RATE_EDIT
      value == IF botRow = 0 THEN FLAG_RATE_VALUE ELSE FLAG_VTBI_VALUE
      row   == IF botRow = 0 THEN TOP_DISPS ELSE BOT_DISPS
      s1    == XorSet(sys \ {other}, {own})
  IN  IF FLAG_PUMP_ACTIVE \in sys THEN NoEffect(sys, ds, nled)
      ELSE IF own \in s1
      THEN KeyResult(s1 \cup {value}, WriteToDispRow(ds, BlankRowBuff, botRow),
                     nled, row, 2, TRUE)
      ELSE KeyResult(s1, ds, nled, row, 1, TRUE)

\* RATE (botRow = 0) and VTBI (botRow = 1): lines 368-393 and 395-420
EditKey(sys, ds, nled, botRow) ==
  LET own   == IF botRow = 0 THEN FLAG_RATE_EDIT ELSE FLAG_VTBI_EDIT
      other == IF botRow = 0 THEN FLAG_VTBI_EDIT ELSE FLAG_RATE_EDIT
      value == IF botRow = 0 THEN FLAG_RATE_VALUE ELSE FLAG_VTBI_VALUE
      row   == IF botRow = 0 THEN TOP_DISPS ELSE BOT_DISPS
      s1    == XorSet(sys \ {other}, {own})
  IN  IF FLAG_PUMP_ACTIVE \in sys THEN NoEffect(sys, ds, nled)
      ELSE IF own \in s1
      THEN IF value \notin s1
           THEN KeyResult(s1 \cup {value}, WriteToDispRow(ds, BlankRowBuff, botRow),
                          nled, row, 2, TRUE)
           ELSE KeyResult(s1, ds, nled, row, 2, TRUE)
      ELSE KeyResult(s1, ds, nled, row, 1, TRUE)

RateKey(sys, ds, nled) == EditKey(sys, ds, nled, TOP_ROW)
VtbiKey(sys, ds, nled) == EditKey(sys, ds, nled, BOT_ROW)

\* START that forgets to leave the edit states
StartKey_KeepsEdit(sys, ds, nled) ==
  KeyResult(sys \cup {FLAG_PUMP_ACTIVE}, ds, nled, ALL_DISPS, 2, FALSE)

\* START that toggles PUMP_ACTIVE instead of setting it
StartKey_Toggles(sys, ds, nled) ==
  KeyResult(XorSet(sys \ {FLAG_RATE_EDIT, FLAG_VTBI_EDIT}, {FLAG_PUMP_ACTIVE}),
            ds, nled, ALL_DISPS, 2, FALSE)

StartKey(sys, ds, nled) ==
  KeyResult((sys \ {FLAG_RATE_EDIT, FLAG_VTBI_EDIT}) \cup {FLAG_PUMP_ACTIVE},
            ds, nled, ALL_DISPS, 2, FALSE)

\* numeric keys that always address the RATE row
NumericKey_AlwaysTop(sys, ds, nled, digitPos, oob) ==
  IF {FLAG_RATE_EDIT, FLAG_VTBI_EDIT} \cap sys = {}
  THEN NoEffect(sys, ds, nled)
  ELSE NoEffect(sys, IncDispRow(ds, digitPos, TOP_ROW, oob), nled)

\* HUNDRED, TEN, ONE, TENTH: lines 428-454
NumericKey(sys, ds, nled, digitPos, oob) ==
  IF {FLAG_RATE_EDIT, FLAG_VTBI_EDIT} \cap sys = {}
  THEN NoEffect(sys, ds, nled)
  ELSE NoEffect(sys,
                IncDispRow(ds, digitPos,
                           IF FLAG_RATE_EDIT \in sys THEN TOP_ROW ELSE BOT_ROW, oob),
                nled)

\* CLEAR/SILENCE that resets both rows whichever row is being edited
ClearSilenceKey_BothRows(sys, ds, nled) ==
  IF FLAG_PUMP_ACTIVE \in sys THEN NoEffect(sys, ds, nled)
  ELSE IF {FLAG_RATE_EDIT, FLAG_VTBI_EDIT} \cap sys # {}
  THEN NoEffect(sys,
                WriteToDispRow(WriteToDispRow(ds, BlankRowBuff, TOP_ROW), BlankRowBuff, BOT_ROW),
                nled)
  ELSE NoEffect(sys \ {FLAG_RATE_VALUE, FLAG_VTBI_VALUE},
                WriteToDispRow(WriteToDispRow(ds, DashRowBuff, TOP_ROW), DashRowBuff, BOT_ROW),
                {LED_PUMP, LED_CC, LED_PLUGPWR})

ClearSilenceKey(sys, ds, nled) ==
  IF FLAG_PUMP_ACTIVE \in sys THEN NoEffect(sys, ds, nled)
  ELSE IF FLAG_RATE_EDIT \in sys
  THEN NoEffect(sys, WriteToDispRow(ds, BlankRowBuff, TOP_ROW), nled)
  ELSE IF FLAG_VTBI_EDIT \in sys
  THEN NoEffect(sys, WriteToDispRow(ds, BlankRowBuff, BOT_ROW), nled)
  ELSE NoEffect(sys \ {FLAG_RATE_VALUE, FLAG_VTBI_VALUE},
                WriteToDispRow(WriteToDispRow(ds, DashRowBuff, TOP_ROW), DashRowBuff, BOT_ROW),
                {LED_PUMP, LED_CC, LED_PLUGPWR})

\* P/C MODE (first = CONTROLLER, second = PUMP) and VOLUME INFUSED
\* (first = BATTPWR, second = PLUGPWR): lines 485-503 and 512-530
TwoLedKey(sys, ds, nled, cled, first, second) ==
  IF FLAG_PUMP_ACTIVE \in sys THEN NoEffect(sys, ds, nled)
  ELSE IF XorSet(cled \cap {first}, cled \cap {second}) = {}
  THEN NoEffect(sys, ds, (nled \ {second}) \cup {first})
  ELSE IF first \in cled
  THEN NoEffect(sys, ds, (nled \ {first}) \cup {second})
  ELSE IF second \in cled
  THEN NoEffect(sys, ds, nled \ {second})
  ELSE NoEffect(sys, ds, nled)

PcModeKey(sys, ds, nled, cled) == TwoLedKey(sys, ds, nled, cled, LED_CONTROLLER, LED_PUMP)
VolumeInfusedKey(sys, ds, nled, cled) ==
  TwoLedKey(sys, ds, nled, cled, LED_BATTPWR, LED_PLUGPWR)

\* SEC PIGGY BACK that toggles its LED while the pump is active as well
SecPiggyBackKey_Unguarded(sys, ds, nled) ==
  NoEffect(sys, ds, XorSet(nled, {LED_SECPIGGYBACK}))

SecPiggyBackKey(sys, ds, nled) ==
  IF FLAG_PUMP_ACTIVE \in sys THEN NoEffect(sys, ds, nled)
  ELSE NoEffect(sys, ds, XorSet(nled, {LED_SECPIGGYBACK}))

\* switch (geminiKeypad.currKeyCoord), lines 331-531
PanelKey(coord, sys, ds, nled, cled, oob) ==
  CASE coord = CC_MONITOR -> CcMonitorKey(sys, ds, nled, cled)
    [] coord \in {PAUSE_STOP_DOWN, PAUSE_STOP_ALT} -> PauseStopKey(sys, ds, nled)
    [] coord = RATE -> RateKey(sys, ds, nled)
    [] coord = VTBI -> VtbiKey(sys, ds, nled)
    [] coord = START -> StartKey(sys, ds, nled)
    [] coord \in {HUNDRED, TEN, ONE, TENTH} ->
         NumericKey(sys, ds, nled,
                    CASE coord = HUNDRED -> HUNDREDS_PLACE [] coord = TEN -> TENS_PLACE
                      [] coord = ONE -> ONES_PLACE [] OTHER -> TENTHS_PLACE,
                    oob)
    [] coord = CLEAR_SILENCE -> ClearSilenceKey(sys, ds, nled)
    [] coord = PC_MODE -> PcModeKey(sys, ds, nled, cled)
    [] coord = SEC_PIGGY_BACK -> SecPiggyBackKey(sys, ds, nled)
    [] coord = VOLUME_INFUSED -> VolumeInfusedKey(sys, ds, nled, cled)
    [] OTHER -> NoEffect(sys, ds, nled)

\* ------------------------------------------------------------ the main loop

\* an LED commit that transmits the pattern but does not record it as committed
LedCommit_NoRecord ==
  IF nextLedSRState # currLedSRState
  THEN /\ ledOut' = nextLedSRState
       /\ UNCHANGED << nextLedSRState, currLedSRState >>
  ELSE UNCHANGED ledVars

\* lines 538-545: transmit the desired LED pattern if it differs from the committed one
LedCommit ==
  IF nextLedSRState # currLedSRState
  THEN /\ ledOut' = nextLedSRState
       /\ currLedSRState' = nextLedSRState
       /\ UNCHANGED nextLedSRState
  ELSE UNCHANGED ledVars

\* line 305
Poll ==
  /\ pc = "poll" /\ ~IntPending
  /\ pc' = IF KeypadEvent THEN "branch" ELSE "pollPwr"
  /\ UNCHANGED << currSysState, prevSysState, kpVars, pwrVars, dispVars, ledVars,
                  flashVars, envVars >>
  /\ UNCHANGED << acceptedEdge, callVars, GIE >>

\* line 308
Branch ==
  /\ pc = "branch" /\ ~IntPending
  /\ pc' = IF FLAG_KEYPAD_PRESS \in currSysState THEN "scanBegin" ELSE "saveBegin"
  /\ UNCHANGED << currSysState, prevSysState, kpVars, pwrVars, dispVars, ledVars,
                  flashVars, envVars >>
  /\ UNCHANGED << acceptedEdge, callVars, GIE >>

\* scanForKeyPress, line 97
ScanBegin ==
  /\ pc = "scanBegin" /\ ~IntPending
  /\ rowIE' = FALSE
  /\ pc' = "scanBody"
  /\ UNCHANGED << currSysState, prevSysState, currKeyCoord, pendingKeyCoord, rowIES,
                  rowIFG, TA0CCR0, pwrVars, dispVars, ledVars, flashVars, envVars >>
  /\ UNCHANGED << acceptedEdge, callVars, GIE >>

\* scanForKeyPress, lines 99-138, and the test of line 314
ScanBody ==
  /\ pc = "scanBody" /\ ~IntPending
  /\ LET r == ScanForKeyPress(keyDown) IN
       /\ pendingKeyCoord' = IF r.scanError = 0 THEN r.coord ELSE pendingKeyCoord
       /\ rowIES' = IF r.scanError = 0 THEN TRUE ELSE rowIES
       /\ pc' = IF r.scanError = 0 THEN "setPrev" ELSE "clrCurr"
  /\ rowIFG' = FALSE
  /\ rowIE' = TRUE
  /\ UNCHANGED << currSysState, prevSysState, currKeyCoord, TA0CCR0, pwrVars, dispVars,
                  ledVars, flashVars, envVars >>
  /\ acceptedEdge' = "none"
  /\ UNCHANGED << callVars, GIE >>

\* line 316
ClrCurr ==
  /\ pc = "clrCurr" /\ ~IntPending
  /\ currSysState' = currSysState \ {FLAG_KEYPAD_PRESS}
  /\ pc' = "clrPrev"
  /\ UNCHANGED << prevSysState, kpVars, pwrVars, dispVars, ledVars, flashVars, envVars >>
  /\ UNCHANGED << acceptedEdge, callVars, GIE >>

\* line 317, then lines 538-545
ClrPrev ==
  /\ pc = "clrPrev" /\ ~IntPending
  /\ prevSysState' = prevSysState \ {FLAG_KEYPAD_PRESS}
  /\ LedCommit
  /\ pc' = "pollPwr"
  /\ UNCHANGED << currSysState, kpVars, pwrVars, dispVars, flashVars, envVars >>
  /\ UNCHANGED << acceptedEdge, callVars, GIE >>

\* line 323, then lines 538-545
SetPrev ==
  /\ pc = "setPrev" /\ ~IntPending
  /\ prevSysState' = prevSysState \cup {FLAG_KEYPAD_PRESS}
  /\ LedCommit
  /\ pc' = "pollPwr"
  /\ UNCHANGED << currSysState, kpVars, pwrVars, dispVars, flashVars, envVars >>
  /\ UNCHANGED << acceptedEdge, callVars, GIE >>

\* saveKeyPress, line 170
SaveBegin ==
  /\ pc = "saveBegin" /\ ~IntPending
  /\ rowIE' = FALSE
  /\ pc' = "saveBody"
  /\ UNCHANGED << currSysState, prevSysState, currKeyCoord, pendingKeyCoord, rowIES,
                  rowIFG, TA0CCR0, pwrVars, dispVars, ledVars, flashVars, envVars >>
  /\ UNCHANGED << acceptedEdge, callVars, GIE >>

\* saveKeyPress, lines 173-177
SaveBody ==
  /\ pc = "saveBody" /\ ~IntPending
  /\ currKeyCoord' = pendingKeyCoord
  /\ rowIES' = FALSE
  /\ rowIFG' = FALSE
  /\ rowIE' = TRUE
  /\ pc' = "dispatch"
  /\ UNCHANGED << currSysState, prevSysState, pendingKeyCoord, TA0CCR0, pwrVars,
                  dispVars, ledVars, flashVars, envVars >>
  /\ acceptedEdge' = "none"
  /\ UNCHANGED << callVars, GIE >>

\* the switch of lines 331-531 up to the case's flash (RATE and VTBI mask the
\* row interrupts first, lines 371 and 398); r is the effect of the key
DispatchApply(r) ==
  /\ currSysState' = r.sys
  /\ sevSegDispArr' = r.bank.arr
  /\ dispOut' = r.bank.out
  /\ nextLedSRState' = r.nled
  /\ rowIE' = IF r.maskIE THEN FALSE ELSE rowIE
  /\ IF r.flashN > 0
     THEN /\ pc' = "flashOff"
          /\ flashRow' = r.flashRow
          /\ flashLeft' = r.flashN
          /\ flashRet' = IF r.maskIE THEN "editDone" ELSE "clearKp"
     ELSE /\ pc' = "clearKp"
          /\ UNCHANGED flashVars

Dispatch ==
  /\ pc = "dispatch" /\ ~IntPending
  /\ \E oob \in {0, 255} :
       DispatchApply(PanelKey(currKeyCoord, currSysState, Bank, nextLedSRState,
                              currLedSRState, oob))
  /\ UNCHANGED << prevSysState, currKeyCoord, pendingKeyCoord, rowIES, rowIFG, TA0CCR0,
                  pwrVars, currLedSRState, ledOut, envVars >>
  /\ UNCHANGED << acceptedEdge, callVars, GIE >>

\* flashDispRow, lines 1058-1060: blank the row with a direct write
FlashOff ==
  /\ pc = "flashOff" /\ ~IntPending
  /\ dispOut' = BlankDisps(Bank, flashRow).out
  /\ pc' = "flashOn"
  /\ UNCHANGED << currSysState, prevSysState, kpVars, pwrVars, sevSegDispArr, ledVars,
                  flashVars, envVars >>
  /\ UNCHANGED << acceptedEdge, callVars, GIE >>

\* flashDispRow, lines 1061-1066: after the delay, restore all displays
FlashOn ==
  /\ pc = "flashOn" /\ ~IntPending
  /\ LET f == RefreshAllDisps(Bank) IN
       /\ sevSegDispArr' = f.arr
       /\ dispOut' = f.out
  /\ IF flashLeft > 1
     THEN /\ flashLeft' = flashLeft - 1
          /\ pc' = "flashOff"
          /\ UNCHANGED << flashRow, flashRet >>
     ELSE /\ flashLeft' = 0
          /\ flashRow' = {}
          /\ flashRet' = "none"
          /\ pc' = flashRet
  /\ UNCHANGED << currSysState, prevSysState, kpVars, pwrVars, ledVars, envVars >>
  /\ UNCHANGED << acceptedEdge, callVars, GIE >>

\* lines 390-391 and 417-418: clear the row flags, re-enable the row interrupts
EditDone ==
  /\ pc = "editDone" /\ ~IntPending
  /\ rowIFG' = FALSE
  /\ rowIE' = TRUE
  /\ pc' = "clearKp"
  /\ UNCHANGED << currSysState, prevSysState, currKeyCoord, pendingKeyCoord, rowIES,
                  TA0CCR0, pwrVars, dispVars, ledVars, flashVars, envVars >>
  /\ UNCHANGED << acceptedEdge, callVars, GIE >>

\* line 534, then lines 538-545
ClearKp ==
  /\ pc = "clearKp" /\ ~IntPending
  /\ prevSysState' = prevSysState \ {FLAG_KEYPAD_PRESS}
  /\ LedCommit
  /\ pc' = "pollPwr"
  /\ UNCHANGED << currSysState, kpVars, pwrVars, dispVars, flashVars, envVars >>
  /\ UNCHANGED << acceptedEdge, callVars, GIE >>

\* line 549
PollPwr ==
  /\ pc = "pollPwr" /\ ~IntPending
  /\ pc' = IF PwrEvent THEN "pwrWait" ELSE "poll"
  /\ UNCHANGED << currSysState, prevSysState, kpVars, pwrVars, dispVars, ledVars,
                  flashVars, envVars >>
  /\ UNCHANGED << acceptedEdge, callVars, GIE >>

\* lines 552-554: debounce, wait until the power button is released, debounce
PwrWait ==
  /\ pc = "pwrWait" /\ ~IntPending
  /\ ~pwrBtnDown
  /\ pc' = "pwrEnter"
  /\ UNCHANGED << currSysState, prevSysState, kpVars, pwrVars, dispVars, ledVars,
                  flashVars, envVars >>
  /\ UNCHANGED << acceptedEdge, callVars, GIE >>

\* lines 557-579: enter the OFF state or the ON state
PwrEnter ==
  /\ pc = "pwrEnter" /\ ~IntPending
  /\ IF FLAG_PWR_OFF \in currSysState
     THEN /\ currSysState' =
               currSysState \ {FLAG_RATE_EDIT, FLAG_VTBI_EDIT, FLAG_PUMP_ACTIVE}
          /\ dispOut' = BlankDisps(Bank, ALL_DISPS).out
          /\ ledOut' = {LED_PLUGPWR}
          /\ UNCHANGED << sevSegDispArr, rowIE, rowIFG >>
     ELSE /\ LET f == RefreshAllDisps(Bank) IN
               /\ sevSegDispArr' = f.arr
               /\ dispOut' = f.out
          /\ ledOut' = currLedSRState
          /\ rowIFG' = FALSE
          /\ rowIE' = TRUE
          /\ UNCHANGED currSysState
  /\ pc' = "pwrSync"
  /\ UNCHANGED << prevSysState, currKeyCoord, pendingKeyCoord, rowIES, TA0CCR0, pwrVars,
                  nextLedSRState, currLedSRState, flashVars, envVars >>
  /\ UNCHANGED << acceptedEdge, callVars, GIE >>

\* the end of the power handling without line 582
PwrSync_NoSync ==
  /\ pc = "pwrSync" /\ ~IntPending
  /\ pwrIFG' = FALSE
  /\ pwrIE' = TRUE
  /\ pc' = "poll"
  /\ UNCHANGED << currSysState, prevSysState, kpVars, dispVars, ledVars, flashVars,
                  envVars, acceptedEdge, callVars, GIE >>

\* lines 582-585
PwrSync ==
  /\ pc = "pwrSync" /\ ~IntPending
  /\ prevSysState' = IF FLAG_PWR_OFF \in currSysState
                     THEN prevSysState \cup {FLAG_PWR_OFF}
                     ELSE prevSysState \ {FLAG_PWR_OFF}
  /\ pwrIFG' = FALSE
  /\ pwrIE' = TRUE
  /\ pc' = "poll"
  /\ UNCHANGED << currSysState, kpVars, dispVars, ledVars, flashVars, envVars >>
  /\ UNCHANGED << acceptedEdge, callVars, GIE >>

\* ------------------------------------------------------------ specification

MainLoop ==
  \/ Poll \/ Branch
  \/ ScanBegin \/ ScanBody \/ ClrCurr \/ ClrPrev \/ SetPrev
  \/ SaveBegin \/ SaveBody \/ Dispatch \/ FlashOff \/ FlashOn \/ EditDone \/ ClearKp
  \/ PollPwr \/ PwrWait \/ PwrEnter \/ PwrSync

Isr == KeypadPressISR \/ Timer0A0ISR \/ PwrbtnPressISR

User == (\E k \in PhysKeys : KeyDown(k)) \/ KeyUp \/ PwrDown \/ PwrUp

Next == MainLoop \/ Isr \/ User

Spec == Init /\ [][Next]_vars

\* ------------------------------------------- the panel after a key history
\* A second specification starts the same machine from the idle ON states the
\* panel is in after it was switched on and up to MaxHistory keys were pressed
\* and released one after the other, each handled to the end of its pass.
\* One more key is then pressed; the power button is pressed only in the runs
\* that start from the panel as it was switched on.

KeyCodes ==
  {CC_MONITOR, PAUSE_STOP_DOWN, PAUSE_STOP_ALT, RATE, VTBI, START, HUNDRED, TEN, ONE,
   TENTH, CLEAR_SILENCE, PC_MODE, SEC_PIGGY_BACK, VOLUME_INFUSED}

\* the panel after boot (lines 268-299) and the first power-on (lines 571-578)
PanelBoot ==
  [sys |-> {}, bank |-> RefreshAllDisps([arr |-> [i \in 0 .. NUM_DISPS - 1 |->
                [activeLow |-> 0, hexDigit |-> DASH_CODE, dp |-> 0,
                 nextBinSegCode |-> segCodeTable[DASH_CODE + 1],
                 currBinSegCode |-> segCodeTable[DASH_CODE + 1]]],
              out |-> [i \in 0 .. NUM_DISPS - 1 |-> 0]]),
   led |-> {LED_PUMP, LED_CC, LED_PLUGPWR}, key |-> 0]

\* r is the effect of the key: the switch, its flash (which ends with a
\* refresh of all displays) and the LED commit of lines 538-545
AfterEffect(r, coord) ==
  [sys |-> r.sys,
   bank |-> IF r.flashN > 0 THEN RefreshAllDisps(r.bank)
            ELSE [arr |-> r.bank.arr, out |-> r.bank.out],
   led |-> r.nled, key |-> coord]

\* one uninterrupted release pass of the main loop for the key coord (lines 327-545)
AfterKey(p, coord, oob) ==
  AfterEffect(PanelKey(coord, p.sys, p.bank, p.led, p.led, oob), coord)

RECURSIVE PanelStates(_)
PanelStates(n) ==
  IF n = 0 THEN {PanelBoot}
  ELSE PanelStates(n - 1) \cup
       {AfterKey(p, k, oob) : p \in PanelStates(n - 1), k \in KeyCodes, oob \in {0, 255}}

InitPanel ==
  /\ \E p \in PanelStates(MaxHistory) :
       /\ currSysState = p.sys
       /\ sevSegDispArr = p.bank.arr
       /\ dispOut = p.bank.out
       /\ nextLedSRState = p.led
       /\ currLedSRState = p.led
       /\ ledOut = p.led
       /\ currKeyCoord = p.key
       /\ pendingKeyCoord = p.key
       /\ nPwrPress = IF p = PanelBoot THEN MaxPwrPresses - 1 ELSE MaxPwrPresses
  /\ prevSysState = {}
  /\ rowIE = TRUE
  /\ rowIES = FALSE
  /\ rowIFG = FALSE
  /\ TA0CCR0 = 0
  /\ pwrIE = TRUE
  /\ pwrIFG = FALSE
  /\ pc = "poll"
  /\ flashRow = {}
  /\ flashLeft = 0
  /\ flashRet = "none"
  /\ keyDown = NoKey
  /\ pwrBtnDown = FALSE
  /\ nKeyPress = MaxKeyPresses - 1
  /\ acceptedEdge = "none"
  /\ csPortIndex = 0
  /\ hexCode = 0
  /\ errorCode = 0
  /\ GIE = TRUE

SpecPanel == InitPanel /\ [][Next]_vars

\* ------------------------------------------- the LED buttons as functions
\* A third specification applies the switch and the LED commit to a released
\* LED button for every committed LED pattern, in the ON, RATE EDIT, VTBI EDIT
\* and PUMP ACTIVE states.

Leds ==
  {LED_CONTROLLER, LED_PUMP, LED_CC, LED_BLANKBUTTON, LED_MONITOR, LED_SECPIGGYBACK,
   LED_BATTPWR, LED_PLUGPWR}

LedKeys == {CC_MONITOR, PC_MODE, SEC_PIGGY_BACK, VOLUME_INFUSED}

\* the release of an LED button has been committed (line 328) with the
\* committed LED pattern led, desired = committed
InitLeds ==
  /\ \E led \in SUBSET Leds :
       /\ nextLedSRState = led
       /\ currLedSRState = led
       /\ ledOut = led
  /\ \E key \in LedKeys :
       /\ currKeyCoord = key
       /\ pendingKeyCoord = key
  /\ currSysState \in {{}, {FLAG_RATE_EDIT, FLAG_RATE_VALUE},
                       {FLAG_VTBI_EDIT, FLAG_VTBI_VALUE}, {FLAG_PUMP_ACTIVE}}
  /\ prevSysState = {FLAG_KEYPAD_PRESS}
  /\ sevSegDispArr = PanelBoot.bank.arr
  /\ dispOut = PanelBoot.bank.out
  /\ rowIE = TRUE
  /\ rowIES = FALSE
  /\ rowIFG = FALSE
  /\ TA0CCR0 = 0
  /\ pwrIE = TRUE
  /\ pwrIFG = FALSE
  /\ pc = "dispatch"
  /\ flashRow = {}
  /\ flashLeft = 0
  /\ flashRet = "none"
  /\ keyDown = NoKey
  /\ pwrBtnDown = FALSE
  /\ nKeyPress = MaxKeyPresses
  /\ nPwrPress = MaxPwrPresses
  /\ acceptedEdge = "none"
  /\ csPortIndex = 0
  /\ hexCode = 0
  /\ errorCode = 0
  /\ GIE = TRUE

NextLeds == Dispatch \/ ClearKp

SpecLeds == InitLeds /\ [][NextLeds]_vars

\* ------------------------------------ the consistency guard as a function
\* A fourth specification calls writeHexToSevSeg on its own, again and again,
\* on the first or the last display of a bank whose first display is drawn
\* from GuardDisplays, with a digit code drawn from GuardCodes.

\* digit codes: valid digits, OFF, DASH, and codes the codec rejects
GuardCodes == {0, 1, 9, 15, OFF_CODE, DASH_CODE, 18, 19, 255}

\* display objects: either polarity, with and without decimal point, the
\* committed pattern equal to the pending one or not
GuardDisplay(al, h, d, c) ==
  [activeLow |-> al, hexDigit |-> h, dp |-> d,
   nextBinSegCode |-> SegCode(h, d, al),
   currBinSegCode |-> IF c < 0 THEN SegCode(h, d, al) ELSE c]

GuardDisplays ==
  {GuardDisplay(al, h, d, c) :
     al \in {0, 1}, h \in {1, OFF_CODE, DASH_CODE}, d \in {0, 1}, c \in {-1, 0, 255}}

GuardIndexes == {0, NUM_DISPS - 1}

InitGuard ==
  /\ \E d \in GuardDisplays :
       /\ sevSegDispArr = [PanelBoot.bank.arr EXCEPT ![0] = d]
       /\ dispOut = [PanelBoot.bank.out EXCEPT ![0] = d.currBinSegCode]
  /\ currSysState = {}
  /\ prevSysState = {}
  /\ currKeyCoord = 0
  /\ pendingKeyCoord = 0
  /\ rowIE = TRUE
  /\ rowIES = FALSE
  /\ rowIFG = FALSE
  /\ TA0CCR0 = 0
  /\ pwrIE = TRUE
  /\ pwrIFG = FALSE
  /\ nextLedSRState = PanelBoot.led
  /\ currLedSRState = PanelBoot.led
  /\ ledOut = PanelBoot.led
  /\ pc = "caller"
  /\ flashRow = {}
  /\ flashLeft = 0
  /\ flashRet = "none"
  /\ keyDown = NoKey
  /\ pwrBtnDown = FALSE
  /\ nKeyPress = MaxKeyPresses
  /\ nPwrPress = MaxPwrPresses
  /\ acceptedEdge = "none"
  /\ csPortIndex = 0
  /\ hexCode = 0
  /\ errorCode = 0
  /\ GIE = TRUE

\* a caller passes a display and a digit code (line 631)
CallWriteHex ==
  /\ pc = "caller"
  /\ \E i \in GuardIndexes, h \in GuardCodes :
       /\ csPortIndex' = i
       /\ hexCode' = h
  /\ pc' = "writeHex"
  /\ UNCHANGED << currSysState, prevSysState, kpVars, pwrVars, dispVars, ledVars,
                  flashVars, envVars, acceptedEdge, errorCode, GIE >>

\* lines 633-657
RunWriteHex ==
  /\ pc = "writeHex"
  /\ LET w == WriteHexToSevSeg(Bank, csPortIndex, hexCode) IN
       /\ sevSegDispArr' = w.arr
       /\ dispOut' = w.out
       /\ errorCode' = w.err
  /\ pc' = "caller"
  /\ UNCHANGED << currSysState, prevSysState, kpVars, pwrVars, ledVars, flashVars,
                  envVars, acceptedEdge, csPortIndex, hexCode, GIE >>

NextGuard == CallWriteHex \/ RunWriteHex

SpecGuard == InitGuard /\ [][NextGuard]_vars

\* ------------------------------------------------------------- properties

\* one step of the main loop leaving position p
MainStepAt(p) == pc = p /\ pc' # p

\* saveKeyPress stores the coordinate (line 173)
CommitStep == pc = "saveBody" /\ pc' = "dispatch"

EditFlags == {FLAG_RATE_EDIT, FLAG_VTBI_EDIT, FLAG_PUMP_ACTIVE}
ValueFlags == {FLAG_RATE_VALUE, FLAG_VTBI_VALUE}

\* the power-off has been handled by the main loop
PanelOff == FLAG_PWR_OFF \in currSysState /\ FLAG_PWR_OFF \in prevSysState

HexDigits(a, row) == [i \in row |-> a[i].hexDigit]
DecPoints(a, row) == [i \in row |-> a[i].dp]

\* C1: the committed coordinate changes only in saveKeyPress, and only while
\* the release accepted by the debounce timer is the edge being handled; the
\* value stored is pendingKeyCoord, which only a successful scan writes, with
\* the scanned key's coordinate; the switch is entered only by that commit.
C1_CommitOnAcceptedRelease ==
  [][ /\ (currKeyCoord' # currKeyCoord =>
            CommitStep /\ acceptedEdge = "release" /\ currKeyCoord' = pendingKeyCoord)
      /\ (pendingKeyCoord' # pendingKeyCoord =>
            /\ MainStepAt("scanBody")
            /\ ScanForKeyPress(keyDown).scanError = 0
            /\ pendingKeyCoord' = ScanForKeyPress(keyDown).coord)
      /\ (pc' = "dispatch" /\ pc # "dispatch" =>
            CommitStep /\ currKeyCoord' = pendingKeyCoord')
    ]_vars

\* C2: on a scan miss the main loop (scanForKeyPress returning 1, lines 316-317
\* and the LED commit that ends the pass) changes neither the committed
\* coordinate, nor any flag but FLAG_KEYPAD_PRESS, nor a display, nor the LED
\* state, nor the edge polarity, which is press-watching; it ends with
\* FLAG_KEYPAD_PRESS clear in both snapshots and goes on to the power check,
\* never to the commit or the switch.
C2_ScanMiss ==
  [][ (\/ MainStepAt("scanBody") /\ ScanForKeyPress(keyDown).scanError # 0
       \/ MainStepAt("clrCurr")
       \/ MainStepAt("clrPrev"))
      => /\ currKeyCoord' = currKeyCoord
         /\ pendingKeyCoord' = pendingKeyCoord
         /\ currSysState' \ {FLAG_KEYPAD_PRESS} = currSysState \ {FLAG_KEYPAD_PRESS}
         /\ prevSysState' \ {FLAG_KEYPAD_PRESS} = prevSysState \ {FLAG_KEYPAD_PRESS}
         /\ UNCHANGED << dispVars, ledVars >>
         /\ rowIES' = rowIES /\ ~rowIES'
         /\ pc' \in {"clrCurr", "clrPrev", "pollPwr"}
         /\ (pc = "clrPrev" =>
               /\ FLAG_KEYPAD_PRESS \notin currSysState'
               /\ FLAG_KEYPAD_PRESS \notin prevSysState'
               /\ pc' = "pollPwr")
    ]_vars

\* a scan miss is being handled while the panel holds a user value
C2_Witness == pc = "clrPrev" /\ FLAG_RATE_VALUE \in currSysState

\* C3: an expiry of the debounce timer makes the FLAG_KEYPAD_PRESS bits differ;
\* the main loop scans only for an accepted press and commits only for an
\* accepted release, so none is acted on twice; and an accepted edge goes away
\* only by being acted on.
C3_EachEdgeOnce ==
  [][ /\ (TA0CCR0 # 0 /\ TA0CCR0' = 0 /\ acceptedEdge' # "none" => KeypadEvent')
      /\ (MainStepAt("scanBody") => acceptedEdge = "press")
      /\ (CommitStep => acceptedEdge = "release")
      /\ (acceptedEdge # "none" /\ acceptedEdge' = "none" =>
            MainStepAt("scanBody") \/ CommitStep)
    ]_vars

\* C4: the main loop writes the shared flag bytes (lines 316, 317, 323, 534)
\* only while the interrupts that write them (power button; keypad rows, which
\* arm the debounce timer) are disabled.
C4_FlagWritesMasked ==
  pc \in {"clrCurr", "clrPrev", "setPrev", "clearKp"} => ~rowIE /\ ~pwrIE

\* C5: at most one of RATE_EDIT, VTBI_EDIT and PUMP_ACTIVE is set
C5_OneMode == Cardinality(currSysState \cap EditFlags) <= 1

\* START was pressed after a RATE edit had been entered
C5_Witness == FLAG_PUMP_ACTIVE \in currSysState /\ FLAG_RATE_VALUE \in currSysState

\* C6: while the panel is OFF none of RATE_EDIT, VTBI_EDIT, PUMP_ACTIVE is set
C6_OffHasNoMode == PanelOff => currSysState \cap EditFlags = {}

\* C7: while the panel is OFF (the power-off handled, no new power press being
\* handled) the displays are blank and only the plug-power LED is lit
C7_OffIsDark ==
  PanelOff /\ pc \notin {"pwrWait", "pwrEnter", "pwrSync"}
    => /\ \A i \in 0 .. NUM_DISPS - 1 : dispOut[i] = 0
       /\ ledOut = {LED_PLUGPWR}

\* no button has been touched since boot
Untouched == nKeyPress = 0 /\ nPwrPress = 0

\* C8: with no button touched, after boot every display holds DASH with
\* pending = committed, the physical displays are blank, only the plug-power
\* LED is lit, row interrupts are disabled, FLAG_KEYPAD_PRESS is clear in both
\* snapshots, FLAG_PWR_OFF is set in currSysState, the first pass of the main
\* loop sets it in prevSysState, and there it stays.
C8_BootOff ==
  /\ [](Untouched =>
          /\ \A i \in 0 .. NUM_DISPS - 1 :
               /\ sevSegDispArr[i].hexDigit = DASH_CODE
               /\ sevSegDispArr[i].nextBinSegCode = sevSegDispArr[i].currBinSegCode
               /\ dispOut[i] = 0
          /\ ledOut = {LED_PLUGPWR}
          /\ ~rowIE
          /\ FLAG_KEYPAD_PRESS \notin currSysState
          /\ FLAG_KEYPAD_PRESS \notin prevSysState
          /\ FLAG_PWR_OFF \in currSysState
          /\ currSysState \cap EditFlags = {})
  /\ [][ Untouched' =>
           /\ (MainStepAt("pwrSync") => PanelOff')
           /\ (PanelOff => PanelOff')
           /\ (MainStepAt("poll") /\ PanelOff => pc' = "pollPwr")
           /\ (MainStepAt("pollPwr") /\ PanelOff => pc' = "poll")
       ]_vars

\* the first pass is over and nothing was touched
C8_Witness == Untouched /\ PanelOff /\ pc = "poll"

BlankZeroRow(a, row) ==
  /\ \A i \in row : a[i].hexDigit = (IF i % 4 = 2 THEN 0 ELSE OFF_CODE)
  /\ \A i \in row : a[i].dp = 0

SameRow(a, b, row) == HexDigits(a, row) = HexDigits(b, row) /\ DecPoints(a, row) = DecPoints(b, row)

\* C9: the switch on RATE (VTBI) with the pump not active toggles RATE_EDIT
\* (VTBI_EDIT) and clears the other edit flag; entering with RATE_VALUE
\* (VTBI_VALUE) clear sets the row to OFF OFF 0 OFF without decimal points and
\* sets the flag; entering with the flag set, and leaving, keep the row's
\* digits and decimal points.
C9_EditToggle ==
  [][ MainStepAt("dispatch") /\ currKeyCoord \in {RATE, VTBI}
        /\ FLAG_PUMP_ACTIVE \notin currSysState
      => LET top   == currKeyCoord = RATE
             own   == IF top THEN FLAG_RATE_EDIT ELSE FLAG_VTBI_EDIT
             other == IF top THEN FLAG_VTBI_EDIT ELSE FLAG_RATE_EDIT
             value == IF top THEN FLAG_RATE_VALUE ELSE FLAG_VTBI_VALUE
             row   == IF top THEN TOP_DISPS ELSE BOT_DISPS
         IN  /\ (own \in currSysState') <=> (own \notin currSysState)
             /\ other \notin currSysState'
             /\ IF own \notin currSysState /\ value \notin currSysState
                THEN BlankZeroRow(sevSegDispArr', row) /\ value \in currSysState'
                ELSE SameRow(sevSegDispArr', sevSegDispArr, row)
    ]_vars

\* RATE has just been entered again while the row holds a digit the user set
C9_Witness ==
  /\ pc = "flashOff" /\ flashRet = "editDone" /\ flashLeft = 2 /\ flashRow = TOP_DISPS
  /\ currKeyCoord = RATE
  /\ sevSegDispArr[2].hexDigit = 1

\* C10: the switch on CLEAR/SILENCE with the pump not active: while RATE_EDIT
\* (VTBI_EDIT) is set only that row is reset to OFF OFF 0 OFF and the other
\* row, RATE_VALUE, VTBI_VALUE and the LED state stay; with neither set all
\* eight displays hold DASH and RATE_VALUE and VTBI_VALUE are cleared.
C10_ClearSilence ==
  [][ MainStepAt("dispatch") /\ currKeyCoord = CLEAR_SILENCE
        /\ FLAG_PUMP_ACTIVE \notin currSysState
      => IF {FLAG_RATE_EDIT, FLAG_VTBI_EDIT} \cap currSysState # {}
         THEN LET top == FLAG_RATE_EDIT \in currSysState IN
              /\ BlankZeroRow(sevSegDispArr', IF top THEN TOP_DISPS ELSE BOT_DISPS)
              /\ SameRow(sevSegDispArr', sevSegDispArr, IF top THEN BOT_DISPS ELSE TOP_DISPS)
              /\ currSysState' \cap ValueFlags = currSysState \cap ValueFlags
              /\ UNCHANGED ledVars
              /\ nextLedSRState = currLedSRState
         ELSE /\ \A i \in 0 .. NUM_DISPS - 1 :
                   sevSegDispArr'[i].hexDigit = DASH_CODE /\ sevSegDispArr'[i].dp = 0
              /\ currSysState' \cap ValueFlags = {}
    ]_vars

\* CLEAR/SILENCE has just reset the RATE row while the VTBI row holds a digit
C10_Witness ==
  /\ pc = "clearKp" /\ currKeyCoord = CLEAR_SILENCE
  /\ FLAG_RATE_EDIT \in currSysState
  /\ BlankZeroRow(sevSegDispArr, TOP_DISPS)
  /\ sevSegDispArr[6].hexDigit = 1

\* C11: the switch on CLEAR/SILENCE in the ON state (power on, no edit flag,
\* pump not active) leaves every display holding DASH and asks for all LEDs
\* to be turned off.
C11_ClearTurnsLedsOff ==
  [][ MainStepAt("dispatch") /\ currKeyCoord = CLEAR_SILENCE
        /\ currSysState \cap EditFlags = {} /\ FLAG_PWR_OFF \notin currSysState
      => /\ \A i \in 0 .. NUM_DISPS - 1 : sevSegDispArr'[i].hexDigit = DASH_CODE
         /\ nextLedSRState' = {}
    ]_vars

\* the keys the PUMP ACTIVE state locks
LockedKeys ==
  {RATE, VTBI, HUNDRED, TEN, ONE, TENTH, CLEAR_SILENCE, CC_MONITOR, PC_MODE,
   SEC_PIGGY_BACK, VOLUME_INFUSED}

\* C12: while PUMP_ACTIVE is set, the handling of a committed key other than
\* PAUSE/STOP and START (the switch, then line 534 and the LED commit) changes
\* no panel flag apart from FLAG_KEYPAD_PRESS, no display digit or decimal
\* point, and neither the desired nor the committed LED pattern; the switch
\* flashes nothing.
C12_PumpActiveLocks ==
  [][ (MainStepAt("dispatch") \/ MainStepAt("clearKp"))
        /\ FLAG_PUMP_ACTIVE \in currSysState /\ currKeyCoord \in LockedKeys
      => /\ currSysState' = currSysState
         /\ prevSysState' \ {FLAG_KEYPAD_PRESS} = prevSysState \ {FLAG_KEYPAD_PRESS}
         /\ SameRow(sevSegDispArr', sevSegDispArr, ALL_DISPS)
         /\ UNCHANGED << dispOut, ledVars >>
         /\ pc' \in {"clearKp", "pollPwr"}
    ]_vars

\* SEC PIGGY BACK has been handled while the pump is active, a RATE value is
\* held and the SEC PIGGY BACK LED was lit before START
C12_Witness ==
  /\ pc = "pollPwr" /\ currKeyCoord = SEC_PIGGY_BACK
  /\ FLAG_PUMP_ACTIVE \in currSysState /\ FLAG_RATE_VALUE \in currSysState
  /\ LED_SECPIGGYBACK \in currLedSRState

\* C13: the switch on START clears RATE_EDIT and VTBI_EDIT, sets PUMP_ACTIVE
\* and asks for two flashes of both rows; when PUMP_ACTIVE is already set, the
\* whole handling of START (switch, flashes, line 534, LED commit) leaves the
\* panel flags, the display digits and decimal points and the LED state as
\* they were.
C13_StartIdempotent ==
  [][ /\ (MainStepAt("dispatch") /\ currKeyCoord = START
            => /\ currSysState' =
                    (currSysState \ {FLAG_RATE_EDIT, FLAG_VTBI_EDIT}) \cup {FLAG_PUMP_ACTIVE}
               /\ pc' = "flashOff" /\ flashLeft' = 2 /\ flashRow' = ALL_DISPS)
      /\ ((MainStepAt("dispatch") \/ MainStepAt("flashOff")
             \/ MainStepAt("flashOn") \/ MainStepAt("clearKp"))
            /\ currKeyCoord = START /\ FLAG_PUMP_ACTIVE \in currSysState
            => /\ currSysState' = currSysState
               /\ prevSysState' \ {FLAG_KEYPAD_PRESS} = prevSysState \ {FLAG_KEYPAD_PRESS}
               /\ SameRow(sevSegDispArr', sevSegDispArr, ALL_DISPS)
               /\ UNCHANGED ledVars)
    ]_vars

\* START is being handled with PUMP_ACTIVE set, a VTBI value held and the
\* CONTROLLER LED lit: the first of its two flashes has blanked the displays
C13_Witness ==
  /\ pc = "flashOn" /\ flashLeft = 2 /\ currKeyCoord = START
  /\ FLAG_PUMP_ACTIVE \in currSysState /\ FLAG_VTBI_VALUE \in currSysState
  /\ LED_CONTROLLER \in ledOut
  /\ \A i \in ALL_DISPS : dispOut[i] = 0

\* C14: the switch on PAUSE/STOP (either coordinate) with the power on clears
\* RATE_EDIT, VTBI_EDIT and PUMP_ACTIVE and nothing else of the panel flags,
\* and asks for one flash of both rows; the whole handling (switch, flash,
\* line 534, LED commit) keeps the display digits and decimal points, the
\* RATE_VALUE and VTBI_VALUE flags and the LED state.
C14_PauseStop ==
  [][ /\ (MainStepAt("dispatch") /\ currKeyCoord \in {PAUSE_STOP_DOWN, PAUSE_STOP_ALT}
            /\ FLAG_PWR_OFF \notin currSysState
            => /\ currSysState' = currSysState \ EditFlags
               /\ pc' = "flashOff" /\ flashLeft' = 1 /\ flashRow' = ALL_DISPS)
      /\ ((MainStepAt("dispatch") \/ MainStepAt("flashOff")
             \/ MainStepAt("flashOn") \/ MainStepAt("clearKp"))
            /\ currKeyCoord \in {PAUSE_STOP_DOWN, PAUSE_STOP_ALT}
            => /\ currSysState' \cap ValueFlags = currSysState \cap ValueFlags
               /\ SameRow(sevSegDispArr', sevSegDispArr, ALL_DISPS)
               /\ UNCHANGED ledVars)
    ]_vars

\* PAUSE/STOP has left a mode: the flash is over, no mode flag is set, the
\* RATE row still holds the digit the user set and the SEC PIGGY BACK LED is lit
C14_Witness ==
  /\ pc = "clearKp" /\ currKeyCoord \in {PAUSE_STOP_DOWN, PAUSE_STOP_ALT}
  /\ currSysState \cap EditFlags = {}
  /\ FLAG_RATE_VALUE \in currSysState /\ sevSegDispArr[2].hexDigit = 1
  /\ LED_SECPIGGYBACK \in ledOut

NumericKeys == {HUNDRED, TEN, ONE, TENTH}

\* the place a numeric key addresses (lines 430, 437, 444, 451)
KeyPlace(coord) ==
  CASE coord = HUNDRED -> HUNDREDS_PLACE [] coord = TEN -> TENS_PLACE
    [] coord = ONE -> ONES_PLACE [] OTHER -> TENTHS_PLACE

\* the digit a display shows, a blank display counting as 0
DigitVal(h) == IF h \in 0 .. 9 THEN h ELSE 0

\* the number a row shows outside the thousands state, in tenths
RowTenths(a, botRow) ==
  LET b == IF botRow # 0 THEN 4 ELSE 0 IN
    1000 * DigitVal(a[b].hexDigit) + 100 * DigitVal(a[b + 1].hexDigit)
      + 10 * DigitVal(a[b + 2].hexDigit) + DigitVal(a[b + 3].hexDigit)

\* the weight of a place, in tenths
PlaceTenths(digitPos) ==
  CASE digitPos = HUNDREDS_PLACE -> 1000 [] digitPos = TENS_PLACE -> 100
    [] digitPos = ONES_PLACE -> 10 [] OTHER -> 1

\* C15: the switch on a numeric key changes no panel flag and no LED state and
\* flashes nothing; with neither edit flag set it changes no display digit or
\* decimal point; with RATE_EDIT (VTBI_EDIT) set it leaves the other row as it
\* was and, when the row is below 1000 and the addressed digit below 9, adds
\* the weight of the key's place to the number the RATE (VTBI) row shows.
C15_NumericKey ==
  [][ MainStepAt("dispatch") /\ currKeyCoord \in NumericKeys
      => /\ currSysState' = currSysState
         /\ UNCHANGED ledVars
         /\ pc' = "clearKp"
         /\ IF {FLAG_RATE_EDIT, FLAG_VTBI_EDIT} \cap currSysState = {}
            THEN SameRow(sevSegDispArr', sevSegDispArr, ALL_DISPS) /\ UNCHANGED dispOut
            ELSE LET botRow == IF FLAG_RATE_EDIT \in currSysState THEN TOP_ROW ELSE BOT_ROW
                     place  == KeyPlace(currKeyCoord)
                 IN  /\ SameRow(sevSegDispArr', sevSegDispArr,
                                IF botRow = TOP_ROW THEN BOT_DISPS ELSE TOP_DISPS)
                     /\ (/\ ThousandState(sevSegDispArr, botRow) = 0
                         /\ DigitVal(sevSegDispArr[4 * botRow + place].hexDigit) < 9
                         => RowTenths(sevSegDispArr', botRow)
                              = RowTenths(sevSegDispArr, botRow) + PlaceTenths(place))
    ]_vars

\* TEN has been handled a second time while VTBI is being edited and the RATE
\* row holds a value of its own
C15_Witness ==
  /\ pc = "clearKp" /\ currKeyCoord = TEN
  /\ FLAG_VTBI_EDIT \in currSysState /\ FLAG_RATE_VALUE \in currSysState
  /\ sevSegDispArr[5].hexDigit = 2

\* the group of LEDs a cycling button steps through, and its first member
LedGroup(coord) ==
  CASE coord = CC_MONITOR -> {LED_CC, LED_BLANKBUTTON, LED_MONITOR}
    [] coord = PC_MODE -> {LED_CONTROLLER, LED_PUMP}
    [] OTHER -> {LED_BATTPWR, LED_PLUGPWR}

LedFirst(coord) ==
  CASE coord = CC_MONITOR -> LED_CC
    [] coord = PC_MODE -> LED_CONTROLLER
    [] OTHER -> LED_BATTPWR

C17_EditLocksLeds ==
  [][ (MainStepAt("dispatch") \/ MainStepAt("clearKp"))
        /\ currKeyCoord \in LedKeys
        /\ {FLAG_RATE_EDIT, FLAG_VTBI_EDIT} \cap currSysState # {}
      => UNCHANGED << nextLedSRState, currLedSRState >>
    ]_vars

\* the last step of the handling of a keypad event: lines 317, 323 or 534,
\* each followed by the LED commit of lines 538-545
LedCommitStep == MainStepAt("clrPrev") \/ MainStepAt("setPrev") \/ MainStepAt("clearKp")

\* C18: the handling of a keypad event writes the LED shift register only in
\* its LED commit, only when the desired pattern differs from the committed
\* one, and then with the desired pattern; the committed pattern changes
\* nowhere else; after the commit desired = committed; and desired = committed
\* at the top of every iteration of the main loop.
C18_LedCommit ==
  /\ [](pc = "poll" => nextLedSRState = currLedSRState)
  /\ [][ /\ (LedCommitStep =>
               /\ nextLedSRState' = currLedSRState'
               /\ nextLedSRState' = nextLedSRState
               /\ (ledOut' # ledOut => nextLedSRState # currLedSRState)
               /\ (nextLedSRState # currLedSRState => ledOut' = nextLedSRState))
         /\ (currLedSRState' # currLedSRState => LedCommitStep)
         /\ (ledOut' # ledOut => LedCommitStep \/ MainStepAt("pwrEnter"))
       ]_vars

\* SEC PIGGY BACK has been handled with the panel on: its LED is lit, and the
\* desired pattern has been committed
C18_Witness ==
  /\ pc = "pollPwr" /\ currKeyCoord = SEC_PIGGY_BACK
  /\ FLAG_PWR_OFF \notin currSysState
  /\ LED_SECPIGGYBACK \in ledOut
  /\ ledOut = currLedSRState /\ nextLedSRState = currLedSRState

\* the display addressed by the call is consistent: committed = pending
Consistent(a, i) == a[i].currBinSegCode = a[i].nextBinSegCode

\* C19: writeHexToSevSeg called on a display whose committed pattern differs
\* from its pending pattern returns 2, transmits nothing and leaves every
\* display object (digit, decimal point, pending and committed pattern) as it
\* was.
C19_GuardRejects ==
  [][ MainStepAt("writeHex") /\ ~Consistent(sevSegDispArr, csPortIndex)
      => /\ errorCode' = 2
         /\ dispOut' = dispOut
         /\ sevSegDispArr' = sevSegDispArr
    ]_vars

\* a write of the digit 9 to an inconsistent display showing 1 has returned 2
C19_Witness ==
  /\ pc = "caller" /\ errorCode = 2 /\ hexCode = 9
  /\ ~Consistent(sevSegDispArr, csPortIndex)
  /\ sevSegDispArr[csPortIndex].hexDigit = 1

\* C20: writeHexToSevSeg called with a digit code the codec rejects (>= 0x12)
\* on a consistent display returns 1, transmits nothing, leaves the committed
\* pattern as it was, and leaves the display consistent.
C20_InvalidKeepsConsistent ==
  [][ MainStepAt("writeHex") /\ Consistent(sevSegDispArr, csPortIndex) /\ hexCode >= 18
      => /\ errorCode' = 1
         /\ dispOut' = dispOut
         /\ sevSegDispArr'[csPortIndex].currBinSegCode
              = sevSegDispArr[csPortIndex].currBinSegCode
         /\ Consistent(sevSegDispArr', csPortIndex)
    ]_vars

\* ------------------------------------------------- the increment engine
\* A fifth specification starts from the panel as it was switched on and
\* handles keys pressed and released one after the other, each without an
\* interruption: numeric keys without a limit, while the row that is not being
\* edited shows at most MaxOtherRowTenths, and up to MaxModeKeys other keys
\* (counted in nKeyPress).

ModeKeys == {RATE, VTBI, CLEAR_SILENCE, START, PAUSE_STOP_DOWN}

\* the row the numeric keys address (lines 429-432), and the other row
EditedRow == IF FLAG_RATE_EDIT \in currSysState THEN TOP_ROW ELSE BOT_ROW
OtherRow == IF FLAG_RATE_EDIT \in currSysState THEN BOT_ROW ELSE TOP_ROW

InitInc ==
  /\ currSysState = PanelBoot.sys
  /\ prevSysState = {}
  /\ currKeyCoord = 0
  /\ pendingKeyCoord = 0
  /\ rowIE = TRUE
  /\ rowIES = FALSE
  /\ rowIFG = FALSE
  /\ TA0CCR0 = 0
  /\ pwrIE = TRUE
  /\ pwrIFG = FALSE
  /\ sevSegDispArr = PanelBoot.bank.arr
  /\ dispOut = PanelBoot.bank.out
  /\ nextLedSRState = PanelBoot.led
  /\ currLedSRState = PanelBoot.led
  /\ ledOut = PanelBoot.led
  /\ pc = "pollPwr"
  /\ flashRow = {}
  /\ flashLeft = 0
  /\ flashRet = "none"
  /\ keyDown = NoKey
  /\ pwrBtnDown = FALSE
  /\ nKeyPress = 0
  /\ nPwrPress = MaxPwrPresses
  /\ acceptedEdge = "none"
  /\ csPortIndex = 0
  /\ hexCode = 0
  /\ errorCode = 0
  /\ GIE = TRUE

\* a key is pressed and released with the main loop idle and nothing
\* interrupting: the press is scanned (lines 310, 323), the release commits the
\* coordinate (line 329) and the loop stands at the switch of line 331
CommitKey(k) ==
  /\ pc = "pollPwr" /\ ~KeypadEvent /\ ~PwrEvent /\ ~IntPending
  /\ IF k \in NumericKeys
     THEN /\ {FLAG_RATE_EDIT, FLAG_VTBI_EDIT} \cap currSysState # {}
          /\ ThousandState(sevSegDispArr, OtherRow) = 0
              \/ \A i \in (IF OtherRow = TOP_ROW THEN TOP_DISPS ELSE BOT_DISPS) :
                   sevSegDispArr[i].hexDigit = DASH_CODE
          /\ RowTenths(sevSegDispArr, OtherRow) <= MaxOtherRowTenths
          /\ UNCHANGED nKeyPress
     ELSE /\ nKeyPress < MaxModeKeys
          /\ nKeyPress' = nKeyPress + 1
  /\ currKeyCoord' = k
  /\ pendingKeyCoord' = k
  /\ prevSysState' = prevSysState \cup {FLAG_KEYPAD_PRESS}
  /\ pc' = "dispatch"
  /\ UNCHANGED << currSysState, rowIE, rowIES, rowIFG, TA0CCR0, pwrVars, dispVars,
                  ledVars, flashVars, keyDown, pwrBtnDown, nPwrPress >>
  /\ UNCHANGED << acceptedEdge, callVars, GIE >>

NextInc ==
  \/ \E k \in NumericKeys \cup ModeKeys : CommitKey(k)
  \/ Dispatch \/ FlashOff \/ FlashOn \/ EditDone \/ ClearKp

SpecInc == InitInc /\ [][NextInc]_vars

\* the values the display-writing calls of the switch return for the
\* committed key in the current state (lines 376, 403, 430-452, 463, 470, 477-478)
SwitchErrorCodes(oob) ==
  LET editing == {FLAG_RATE_EDIT, FLAG_VTBI_EDIT} \cap currSysState # {}
      pump    == FLAG_PUMP_ACTIVE \in currSysState
  IN  CASE currKeyCoord \in NumericKeys /\ editing ->
             {IncDispRow(Bank, KeyPlace(currKeyCoord), EditedRow, oob).err}
        [] currKeyCoord = CLEAR_SILENCE /\ ~pump /\ editing ->
             {WriteToDispRow(Bank, BlankRowBuff, EditedRow).err}
        [] currKeyCoord = CLEAR_SILENCE /\ ~pump /\ ~editing ->
             {WriteToDispRow(Bank, DashRowBuff, TOP_ROW).err,
              WriteToDispRow(WriteToDispRow(Bank, DashRowBuff, TOP_ROW),
                             DashRowBuff, BOT_ROW).err}
        [] currKeyCoord = RATE /\ ~pump /\ FLAG_RATE_EDIT \notin currSysState
             /\ FLAG_RATE_VALUE \notin currSysState ->
             {WriteToDispRow(Bank, BlankRowBuff, TOP_ROW).err}
        [] currKeyCoord = VTBI /\ ~pump /\ FLAG_VTBI_EDIT \notin currSysState
             /\ FLAG_VTBI_VALUE \notin currSysState ->
             {WriteToDispRow(Bank, BlankRowBuff, BOT_ROW).err}
        [] OTHER -> {}

\* C21: between the operations of the main loop every one of the eight
\* displays has pending = committed, and no writeHexToSevSeg call the switch
\* is about to make, directly or through incDispRow, returns 2.
C21_AlwaysConsistent ==
  /\ \A i \in ALL_DISPS : Consistent(sevSegDispArr, i)
  /\ (pc = "dispatch" => \A oob \in {0, 255} : 2 \notin SwitchErrorCodes(oob))

\* the VTBI row has rolled over into the thousands state (digits shifted right)
\* and the pass of the HUNDRED key is over
C21_Witness ==
  /\ pc = "pollPwr" /\ currKeyCoord = HUNDRED /\ FLAG_VTBI_EDIT \in currSysState
  /\ ThousandState(sevSegDispArr, BOT_ROW) = 1
  /\ sevSegDispArr[4].hexDigit = 1 /\ sevSegDispArr[7].hexDigit = 5

\* n successive calls of incDispRow on the same place of the same row, starting
\* from ds, end with every digit and decimal point as the panel has them now
RECURSIVE IncTimesReturns(_, _, _, _)
IncTimesReturns(ds, digitPos, botRow, n) ==
  IF n = 0 THEN SameRow(ds.arr, sevSegDispArr, ALL_DISPS)
  ELSE \A d \in {IncDispRow(ds, digitPos, botRow, 0)} :
         IncTimesReturns(d, digitPos, botRow, n - 1)

Editing == {FLAG_RATE_EDIT, FLAG_VTBI_EDIT} \cap currSysState # {}

\* C22: whenever the switch is about to handle the ONE key on a row being
\* edited, in the thousands state or not, ten successive ONES increments of
\* that row bring every digit and decimal point of the panel back to what it
\* is, and one increment alone does not.
C22_OnesTenTimes ==
  pc = "dispatch" /\ currKeyCoord = ONE /\ Editing =>
    /\ IncTimesReturns(Bank, ONES_PLACE, EditedRow, 10)
    /\ ~IncTimesReturns(Bank, ONES_PLACE, EditedRow, 1)

\* the ONE key has been handled on the VTBI row in the thousands state, whose
\* ones digit (fourth slot) now reads 9
C22_Witness ==
  /\ pc = "pollPwr" /\ currKeyCoord = ONE /\ FLAG_VTBI_EDIT \in currSysState
  /\ ThousandState(sevSegDispArr, BOT_ROW) = 1 /\ sevSegDispArr[7].hexDigit = 9

\* C23: the switch on TEN in an edit state turns the addressed tens display
\* from OFF to 1, from a digit 0-8 to its successor, and from 9 to OFF when
\* the display before it (the hundreds) is OFF and to 0 otherwise; no other
\* display's digit and no decimal point changes.  In the thousands state the
\* tens digit is the third display of the row, otherwise the second.
C23_TensIncrement ==
  [][ MainStepAt("dispatch") /\ currKeyCoord = TEN /\ Editing
      => LET t   == IncTargetIndex(sevSegDispArr, TENS_PLACE, EditedRow)
             old == sevSegDispArr[t].hexDigit
         IN  /\ old \in (0 .. 9) \cup {OFF_CODE}
             /\ sevSegDispArr'[t].hexDigit =
                  (IF old = OFF_CODE THEN 1
                   ELSE IF old \in 0 .. 8 THEN old + 1
                   ELSE IF sevSegDispArr[t - 1].hexDigit = OFF_CODE THEN OFF_CODE
                   ELSE 0)
             /\ \A i \in ALL_DISPS \ {t} :
                  sevSegDispArr'[i].hexDigit = sevSegDispArr[i].hexDigit
             /\ DecPoints(sevSegDispArr', ALL_DISPS) = DecPoints(sevSegDispArr, ALL_DISPS)
    ]_vars

\* TEN has just been handled on the RATE row and left it as blank blank 2
\* blank: the tens digit went from 9 to OFF under a blank hundreds digit
C23_Witness ==
  /\ pc = "clearKp" /\ currKeyCoord = TEN /\ FLAG_RATE_EDIT \in currSysState
  /\ HexDigits(sevSegDispArr, TOP_DISPS) =
       [i \in TOP_DISPS |-> IF i = 2 THEN 2 ELSE OFF_CODE]

\* C24: the switch on HUNDRED while the RATE row is edited with 9 in its first
\* display turns that display OFF, turns the second display OFF if it showed 0
\* and keeps it otherwise, and changes no other digit and no decimal point, so
\* the row does not enter the thousands state.
C24_TopHundredsWrap ==
  [][ MainStepAt("dispatch") /\ currKeyCoord = HUNDRED
        /\ FLAG_RATE_EDIT \in currSysState /\ sevSegDispArr[0].hexDigit = 9
      => /\ sevSegDispArr'[0].hexDigit = OFF_CODE
         /\ sevSegDispArr'[1].hexDigit =
              (IF sevSegDispArr[1].hexDigit = 0 THEN OFF_CODE
               ELSE sevSegDispArr[1].hexDigit)
         /\ \A i \in ALL_DISPS \ {0, 1} :
              sevSegDispArr'[i].hexDigit = sevSegDispArr[i].hexDigit
         /\ DecPoints(sevSegDispArr', ALL_DISPS) = DecPoints(sevSegDispArr, ALL_DISPS)
         /\ ThousandState(sevSegDispArr', TOP_ROW) = 0
    ]_vars

\* HUNDRED has just been handled on the RATE row and left it as blank blank
\* 2.3: the row wrapped from 9 0 2.3
C24_Witness ==
  /\ pc = "clearKp" /\ currKeyCoord = HUNDRED /\ FLAG_RATE_EDIT \in currSysState
  /\ HexDigits(sevSegDispArr, TOP_DISPS) =
       [i \in TOP_DISPS |-> CASE i = 2 -> 2 [] i = 3 -> 3 [] OTHER -> OFF_CODE]
  /\ sevSegDispArr[2].dp = 1

\* C25: the switch on HUNDRED while the VTBI row is edited outside the
\* thousands state with 9 in its first display moves the tens and ones digits
\* one display to the right (dropping the tenths digit), clears the third
\* display's decimal point, shows 0 on the second display and 1 on the first,
\* and leaves the row in the thousands state.
C25_BottomHundredsOverflow ==
  [][ MainStepAt("dispatch") /\ currKeyCoord = HUNDRED
        /\ FLAG_VTBI_EDIT \in currSysState /\ sevSegDispArr[4].hexDigit = 9
        /\ ThousandState(sevSegDispArr, BOT_ROW) = 0
      => /\ sevSegDispArr'[4].hexDigit = 1
         /\ sevSegDispArr'[5].hexDigit = 0
         /\ sevSegDispArr'[6].hexDigit = sevSegDispArr[5].hexDigit
         /\ sevSegDispArr'[7].hexDigit = sevSegDispArr[6].hexDigit
         /\ DecPoints(sevSegDispArr', BOT_DISPS) = [i \in BOT_DISPS |-> 0]
         /\ SameRow(sevSegDispArr', sevSegDispArr, TOP_DISPS)
         /\ ThousandState(sevSegDispArr', BOT_ROW) = 1
    ]_vars

\* HUNDRED has just been handled on the VTBI row and left it as 1 0 0 2
C25_Witness ==
  /\ pc = "clearKp" /\ currKeyCoord = HUNDRED /\ FLAG_VTBI_EDIT \in currSysState
  /\ HexDigits(sevSegDispArr, BOT_DISPS) =
       [i \in BOT_DISPS |-> CASE i = 4 -> 1 [] i = 7 -> 2 [] OTHER -> 0]
  /\ sevSegDispArr[6].dp = 0

\* the first display of a row
RowBase(botRow) == IF botRow # 0 THEN 4 ELSE 0

\* C26: the switch on TENTH while a row outside the thousands state is edited:
\* a blank fourth display (third decimal point off) becomes 1 and the third
\* display's decimal point goes on; a fourth display showing 1-8 shows its
\* successor and the decimal point stays on; a fourth display showing 9 goes
\* blank and the decimal point goes off.  The first three digits of the row
\* and everything on the other row stay.
C26_TenthsIncrement ==
  [][ MainStepAt("dispatch") /\ currKeyCoord = TENTH /\ Editing
        /\ ThousandState(sevSegDispArr, EditedRow) = 0
      => LET b   == RowBase(EditedRow)
             old == sevSegDispArr[b + 3].hexDigit
         IN  /\ old \in (1 .. 9) \cup {OFF_CODE}
             /\ old = OFF_CODE
                  => /\ sevSegDispArr[b + 2].dp = 0
                     /\ sevSegDispArr'[b + 3].hexDigit = 1
                     /\ sevSegDispArr'[b + 2].dp = 1
             /\ old \in 1 .. 8
                  => /\ sevSegDispArr[b + 2].dp = 1
                     /\ sevSegDispArr'[b + 3].hexDigit = old + 1
                     /\ sevSegDispArr'[b + 2].dp = 1
             /\ old = 9
                  => /\ sevSegDispArr[b + 2].dp = 1
                     /\ sevSegDispArr'[b + 3].hexDigit = OFF_CODE
                     /\ sevSegDispArr'[b + 2].dp = 0
             /\ \A i \in ALL_DISPS \ {b + 3} :
                  sevSegDispArr'[i].hexDigit = sevSegDispArr[i].hexDigit
             /\ \A i \in ALL_DISPS \ {b + 2} : sevSegDispArr'[i].dp = sevSegDispArr[i].dp
    ]_vars

\* TENTH has just been handled on the RATE row and left it as blank blank 2
\* blank without a decimal point: the tenths digit went from 9 to OFF
C26_Witness ==
  /\ pc = "clearKp" /\ currKeyCoord = TENTH /\ FLAG_RATE_EDIT \in currSysState
  /\ HexDigits(sevSegDispArr, TOP_DISPS) =
       [i \in TOP_DISPS |-> IF i = 2 THEN 2 ELSE OFF_CODE]
  /\ sevSegDispArr[2].dp = 0

\* the VTBI row is edited and shows 1 0 0 0 in the thousands state
RowOneThousand ==
  /\ FLAG_VTBI_EDIT \in currSysState
  /\ HexDigits(sevSegDispArr, BOT_DISPS) = [i \in BOT_DISPS |-> IF i = 4 THEN 1 ELSE 0]
  /\ DecPoints(sevSegDispArr, BOT_DISPS) = [i \in BOT_DISPS |-> 0]

\* C27 as stated: the switch on TENTH with the VTBI row showing 1 0 0 0 leaves
\* the row as blank, 0, blank with the decimal point lit, 1.
C27_AsStated ==
  [][ MainStepAt("dispatch") /\ currKeyCoord = TENTH /\ RowOneThousand
      => /\ HexDigits(sevSegDispArr', BOT_DISPS) =
              [i \in BOT_DISPS |-> CASE i = 5 -> 0 [] i = 7 -> 1 [] OTHER -> OFF_CODE]
         /\ DecPoints(sevSegDispArr', BOT_DISPS) = [i \in BOT_DISPS |-> IF i = 6 THEN 1 ELSE 0]
    ]_vars

\* C27: the switch on TENTH with the VTBI row showing 1 0 0 0 takes the row
\* out of the thousands state and leaves it as blank, blank, 0 with the
\* decimal point lit, 1.
C27_ExitsToZeroPointOne ==
  [][ MainStepAt("dispatch") /\ currKeyCoord = TENTH /\ RowOneThousand
      => /\ HexDigits(sevSegDispArr', BOT_DISPS) =
              [i \in BOT_DISPS |-> CASE i = 6 -> 0 [] i = 7 -> 1 [] OTHER -> OFF_CODE]
         /\ DecPoints(sevSegDispArr', BOT_DISPS) = [i \in BOT_DISPS |-> IF i = 6 THEN 1 ELSE 0]
         /\ ThousandState(sevSegDispArr', BOT_ROW) = 0
    ]_vars

\* TENTH is committed with the VTBI row showing 1 0 0 0 and the switch is
\* about to handle it
C27_Witness == pc = "dispatch" /\ currKeyCoord = TENTH /\ RowOneThousand

\* the thousands-state predicate of lines 814-817 has another value after the step
OverflowToggles(botRow) ==
  ThousandState(sevSegDispArr', botRow) # ThousandState(sevSegDispArr, botRow)

\* the switch handles HUNDRED on the edited row botRow and the digit the key
\* addresses is 9: outside the thousands state the row rolls over into it, and
\* inside it the row rolls over out of it when the thousands digit is 9 as well
HundredsRollover(botRow) ==
  /\ MainStepAt("dispatch") /\ currKeyCoord = HUNDRED /\ Editing /\ botRow = EditedRow
  /\ sevSegDispArr[IncTargetIndex(sevSegDispArr, HUNDREDS_PLACE, botRow)].hexDigit = 9
  /\ ThousandState(sevSegDispArr, botRow) = 1 => sevSegDispArr[RowBase(botRow)].hexDigit = 9

\* the switch handles TENTH on the edited row botRow in the thousands state
TenthsInOverflow(botRow) ==
  /\ MainStepAt("dispatch") /\ currKeyCoord = TENTH /\ Editing /\ botRow = EditedRow
  /\ ThousandState(sevSegDispArr, botRow) = 1

FirstEntry(botRow) ==
  /\ MainStepAt("dispatch") /\ FLAG_PUMP_ACTIVE \notin currSysState
  /\ \/ botRow = TOP_ROW /\ currKeyCoord = RATE /\ FLAG_RATE_VALUE \notin currSysState
     \/ botRow = BOT_ROW /\ currKeyCoord = VTBI /\ FLAG_VTBI_VALUE \notin currSysState
  /\ ThousandState(sevSegDispArr', botRow) = 0

\* the switch handles CLEAR/SILENCE with the pump not active: the edited row
\* is reset to blank blank 0 blank, or, outside the edit states, both rows
\* are set to dashes (lines 456-482)
ClearWrite(botRow) ==
  /\ MainStepAt("dispatch") /\ currKeyCoord = CLEAR_SILENCE
  /\ FLAG_PUMP_ACTIVE \notin currSysState
  /\ IF Editing
     THEN botRow = EditedRow /\ ThousandState(sevSegDispArr', botRow) = 0
     ELSE ThousandState(sevSegDispArr', botRow) = 1

C29_RateNeverOverflows ==
  FLAG_RATE_EDIT \in currSysState =>
    /\ (sevSegDispArr[2].dp = 1) <=> (sevSegDispArr[3].hexDigit # OFF_CODE)
    /\ \A i \in TOP_DISPS : sevSegDispArr[i].hexDigit \in (0 .. 9) \cup {OFF_CODE}
    /\ ThousandState(sevSegDispArr, TOP_ROW) = 0

\* the RATE row is being edited and shows its largest value, 9 9 9.9
C29_Witness ==
  /\ pc = "pollPwr" /\ FLAG_RATE_EDIT \in currSysState
  /\ HexDigits(sevSegDispArr, TOP_DISPS) = [i \in TOP_DISPS |-> 9]
  /\ sevSegDispArr[2].dp = 1

\* ------------------------------------------------------ the fault handler
\* criticalFaultHandler is called with the panel in one of the idle ON states
\* and the same user at the keys; pc = "fault" is the call, before line 1100.
\* After the watchdog write the device either restarts ("puc") or, if the
\* reset does not occur, spins in the loop of line 1133 ("halt").

FaultPcs == {"fault", "faultPoll", "faultBlank", "faultPressed", "faultReset", "puc", "halt"}

InitFault ==
  /\ \E p \in PanelStates(MaxHistory) :
       /\ currSysState = p.sys
       /\ sevSegDispArr = p.bank.arr
       /\ dispOut = p.bank.out
       /\ nextLedSRState = p.led
       /\ currLedSRState = p.led
       /\ ledOut = p.led
       /\ currKeyCoord = p.key
       /\ pendingKeyCoord = p.key
  /\ prevSysState = {}
  /\ rowIE = TRUE
  /\ rowIES = FALSE
  /\ rowIFG = FALSE
  /\ TA0CCR0 = 0
  /\ pwrIE = TRUE
  /\ pwrIFG = FALSE
  /\ pc = "fault"
  /\ flashRow = {}
  /\ flashLeft = 0
  /\ flashRet = "none"
  /\ keyDown = NoKey
  /\ pwrBtnDown = FALSE
  /\ nKeyPress = MaxKeyPresses - 1
  /\ nPwrPress = MaxPwrPresses - 1
  /\ acceptedEdge = "none"
  /\ csPortIndex = 0
  /\ hexCode = 0
  /\ errorCode = 0
  /\ GIE = TRUE

\* lines 1112-1115: E. C. (col) (row) on the top row, blank 0 F F on the bottom
FaultRows(ds, coord) ==
  WriteToDispRow(
    WriteToDispRow(ds, WriteToRowBuff(14, 1, 12, 1, coord \div 16, 0, coord % 16, 0),
                   TOP_ROW),
    WriteToRowBuff(OFF_CODE, 0, 0, 0, 15, 0, 15, 0), BOT_ROW)

\* a handler that leaves out line 1100
FaultEnter_NoDisable ==
  /\ pc = "fault" /\ ~IntPending
  /\ ledOut' = {}
  /\ LET w == FaultRows(Bank, currKeyCoord) IN
       /\ sevSegDispArr' = w.arr
       /\ dispOut' = w.out
  /\ pc' = "faultPoll"
  /\ UNCHANGED << currSysState, prevSysState, kpVars, pwrVars, nextLedSRState,
                  currLedSRState, flashVars, envVars >>
  /\ UNCHANGED << acceptedEdge, callVars, GIE >>

\* lines 1100-1115: disable interrupts, clear the LEDs, write the two rows
FaultEnter ==
  /\ pc = "fault" /\ ~IntPending
  /\ GIE' = FALSE
  /\ ledOut' = {}
  /\ LET w == FaultRows(Bank, currKeyCoord) IN
       /\ sevSegDispArr' = w.arr
       /\ dispOut' = w.out
  /\ pc' = "faultPoll"
  /\ UNCHANGED << currSysState, prevSysState, kpVars, pwrVars, nextLedSRState,
                  currLedSRState, flashVars, envVars >>
  /\ UNCHANGED << acceptedEdge, callVars >>

\* lines 1118-1123: the power button is up; blank the bottom row
FaultBlank ==
  /\ pc = "faultPoll" /\ ~IntPending /\ ~pwrBtnDown
  /\ dispOut' = BlankDisps(Bank, BOT_DISPS).out
  /\ pc' = "faultBlank"
  /\ UNCHANGED << currSysState, prevSysState, kpVars, pwrVars, sevSegDispArr, ledVars,
                  flashVars, envVars >>
  /\ UNCHANGED << acceptedEdge, callVars, GIE >>

\* lines 1124-1125: after the delay, show all displays again
FaultShow ==
  /\ pc = "faultBlank" /\ ~IntPending
  /\ LET f == RefreshAllDisps(Bank) IN
       /\ sevSegDispArr' = f.arr
       /\ dispOut' = f.out
  /\ pc' = "faultPoll"
  /\ UNCHANGED << currSysState, prevSysState, kpVars, pwrVars, ledVars, flashVars,
                  envVars >>
  /\ UNCHANGED << acceptedEdge, callVars, GIE >>

\* lines 1118, 1128: the power button is down; leave the loop
FaultPressed ==
  /\ pc = "faultPoll" /\ ~IntPending /\ pwrBtnDown
  /\ pc' = "faultPressed"
  /\ UNCHANGED << currSysState, prevSysState, kpVars, pwrVars, dispVars, ledVars,
                  flashVars, envVars >>
  /\ UNCHANGED << acceptedEdge, callVars, GIE >>

\* lines 1129-1130: the power button is up again
FaultReleased ==
  /\ pc = "faultPressed" /\ ~IntPending /\ ~pwrBtnDown
  /\ pc' = "faultReset"
  /\ UNCHANGED << currSysState, prevSysState, kpVars, pwrVars, dispVars, ledVars,
                  flashVars, envVars >>
  /\ UNCHANGED << acceptedEdge, callVars, GIE >>

\* line 1132: the watchdog write resets the device
FaultPuc ==
  /\ pc = "faultReset" /\ ~IntPending
  /\ pc' = "puc"
  /\ UNCHANGED << currSysState, prevSysState, kpVars, pwrVars, dispVars, ledVars,
                  flashVars, envVars >>
  /\ UNCHANGED << acceptedEdge, callVars, GIE >>

\* lines 1132-1133: the reset does not occur and the loop of line 1133 is entered
FaultHalt ==
  /\ pc = "faultReset" /\ ~IntPending
  /\ pc' = "halt"
  /\ UNCHANGED << currSysState, prevSysState, kpVars, pwrVars, dispVars, ledVars,
                  flashVars, envVars >>
  /\ UNCHANGED << acceptedEdge, callVars, GIE >>

NextFault ==
  \/ FaultEnter \/ FaultBlank \/ FaultShow \/ FaultPressed \/ FaultReleased
  \/ FaultPuc \/ FaultHalt
  \/ KeypadPressISR \/ PwrbtnPressISR
  \/ User

SpecFault == InitFault /\ [][NextFault]_vars

\* C30: once line 1100 of the fault handler has run, interrupts stay disabled
\* and execution stays in the handler; no panel flag, key coordinate, LED
\* state or interrupt setting of the panel controller changes; the watchdog
\* write is reached only from the release wait with the power button up, and
\* the release wait only from the flash loop with the power button down; and
\* the loop of line 1133, once entered, is never left.
C30_FaultNeverReturns ==
  /\ [](pc # "fault" => ~GIE /\ pc \in FaultPcs)
  /\ [][ pc # "fault"
         => /\ UNCHANGED << currSysState, prevSysState, currKeyCoord, pendingKeyCoord,
                            rowIE, rowIES, TA0CCR0, pwrIE, nextLedSRState,
                            currLedSRState, ledOut, GIE >>
            /\ pc' \in {"puc", "halt"} /\ pc' # pc => pc = "faultReset"
            /\ pc' = "faultReset" /\ pc' # pc => pc = "faultPressed" /\ ~pwrBtnDown
            /\ pc' = "faultPressed" /\ pc' # pc => pc = "faultPoll" /\ pwrBtnDown
            /\ pc = "halt" => pc' = "halt"
            /\ pc = "puc" => pc' = "puc"
     ]_vars

\* the reset did not occur: execution is in the loop of line 1133 with the
\* LEDs off, and a key edge that arrived in the handler is still pending
C30_Witness == pc = "halt" /\ ~GIE /\ ledOut = {} /\ rowIE /\ rowIFG

\* ----------------------------------------------------------- codec round trip
\* Display 0 is declared with a digit, a decimal point and a polarity (as in
\* line 272 of the client), converted by hexToSevSeg and committed; the
\* object's digit and decimal point are then overwritten, and SevSegToHex reads
\* them back from the committed pattern.  The other displays keep the values
\* display 0 was declared with, and errorCode takes convFail.

CodecDigits == 0 .. DASH_CODE

CodecDisplay(al, h, d) ==
  [activeLow |-> al, hexDigit |-> h, dp |-> d, nextBinSegCode |-> 0, currBinSegCode |-> 0]

InitCodec ==
  /\ \E al \in {0, 1}, h \in CodecDigits, d \in {0, 1} :
       sevSegDispArr = [i \in 0 .. NUM_DISPS - 1 |-> CodecDisplay(al, h, d)]
  /\ dispOut = [i \in 0 .. NUM_DISPS - 1 |-> 0]
  /\ currSysState = {}
  /\ prevSysState = {}
  /\ currKeyCoord = 0
  /\ pendingKeyCoord = 0
  /\ rowIE = FALSE
  /\ rowIES = FALSE
  /\ rowIFG = FALSE
  /\ TA0CCR0 = 0
  /\ pwrIE = FALSE
  /\ pwrIFG = FALSE
  /\ currLedSRState = {}
  /\ nextLedSRState = {}
  /\ ledOut = {}
  /\ pc = "encode"
  /\ flashRow = {}
  /\ flashLeft = 0
  /\ flashRet = "none"
  /\ keyDown = NoKey
  /\ pwrBtnDown = FALSE
  /\ nKeyPress = 0
  /\ nPwrPress = 0
  /\ acceptedEdge = "none"
  /\ csPortIndex = 0
  /\ hexCode = 0
  /\ errorCode = 0
  /\ GIE = TRUE

\* hexToSevSeg and the commit of the pending pattern (sevenSeg.c lines 34-55)
CodecEncode ==
  /\ pc = "encode"
  /\ sevSegDispArr' = [sevSegDispArr EXCEPT ![0] = RefreshDisp(@)]
  /\ dispOut' = [dispOut EXCEPT ![0] = RefreshDisp(sevSegDispArr[0]).currBinSegCode]
  /\ pc' = "forget"
  /\ UNCHANGED << currSysState, prevSysState, kpVars, pwrVars, ledVars, flashVars,
                  envVars >>
  /\ UNCHANGED << acceptedEdge, callVars, GIE >>

\* the object's digit and decimal point no longer tell what is displayed
CodecForget ==
  /\ pc = "forget"
  /\ \E h \in {0, OFF_CODE}, d \in {0, 1} :
       sevSegDispArr' = [sevSegDispArr EXCEPT ![0].hexDigit = h, ![0].dp = d]
  /\ pc' = "decode"
  /\ UNCHANGED << currSysState, prevSysState, kpVars, pwrVars, dispOut, ledVars,
                  flashVars, envVars >>
  /\ UNCHANGED << acceptedEdge, callVars, GIE >>

\* SevSegToHex (sevenSeg.c lines 78-153)
CodecDecode ==
  /\ pc = "decode"
  /\ sevSegDispArr' = [sevSegDispArr EXCEPT ![0] = SevSegToHex(@).disp]
  /\ errorCode' = SevSegToHex(sevSegDispArr[0]).convFail
  /\ pc' = "decoded"
  /\ UNCHANGED << currSysState, prevSysState, kpVars, pwrVars, dispOut, ledVars,
                  flashVars, envVars >>
  /\ UNCHANGED << acceptedEdge, csPortIndex, hexCode, GIE >>

NextCodec == CodecEncode \/ CodecForget \/ CodecDecode

SpecCodec == InitCodec /\ [][NextCodec]_vars

\* C31: for every digit 0x0-0xF, OFF and DASH, both decimal-point values and
\* both polarities, SevSegToHex applied to the pattern hexToSevSeg produced
\* returns 0 and stores the digit and the decimal point the pattern was made
\* from.
C31_RoundTrip ==
  pc = "decoded" =>
    /\ errorCode = 0
    /\ sevSegDispArr[0].hexDigit = sevSegDispArr[1].hexDigit
    /\ sevSegDispArr[0].dp = sevSegDispArr[1].dp

\* the main loop stands at the test of line 305 or of line 549
BetweenOperations == pc \in {"poll", "pollPwr"}

\* C32: whenever the debounce timer is disarmed, the KEYPAD_PRESS bits of
\* currSysState and prevSysState are equal and the main loop is between
\* operations, the row edge select is H->L (release-watching) exactly when
\* KEYPAD_PRESS is set.
C32_EdgeAgrees ==
  TA0CCR0 = 0 /\ ~KeypadEvent /\ BetweenOperations
    => (rowIES <=> FLAG_KEYPAD_PRESS \in currSysState)

\* C33: while the debounce timer is armed the keypad row interrupts are
\* disabled; the timer is armed only from the disarmed state, and the step that
\* arms it loads the release interval exactly when KEYPAD_PRESS is set in
\* currSysState and the press interval otherwise.
C33_OneDebounce ==
  /\ [](TA0CCR0 # 0 => ~rowIE)
  /\ [][ TA0CCR0' # 0 /\ TA0CCR0' # TA0CCR0
         => /\ TA0CCR0 = 0
            /\ TA0CCR0' = IF FLAG_KEYPAD_PRESS \in currSysState
                          THEN RELEASE_DBNC_DELAY ELSE PRESS_DBNC_DELAY
     ]_vars

\* C34: the switch on HUNDRED while the VTBI row is edited in the thousands
\* state.  With 9 on the second display (hundreds) and less than 9 on the first
\* (thousands), the first display shows its successor, the second shows 0, the
\* third and fourth stay and the row stays in the thousands state.  With 9 on
\* both, the row leaves the thousands state: the tens and ones digits move one
\* display to the left (a tens digit of 0 goes blank) and the first and fourth
\* displays go blank.  With less than 9 on the second display only that
\* display changes, to its successor.  Decimal points and the RATE row stay.
C34_HundredsInThousands ==
  [][ MainStepAt("dispatch") /\ currKeyCoord = HUNDRED
        /\ FLAG_VTBI_EDIT \in currSysState
        /\ ThousandState(sevSegDispArr, BOT_ROW) = 1
      => LET old == HexDigits(sevSegDispArr, BOT_DISPS)
             new == HexDigits(sevSegDispArr', BOT_DISPS)
         IN  /\ old[4] \in 1 .. 9 /\ old[5] \in 0 .. 9
             /\ old[5] = 9 /\ old[4] < 9
                  => /\ new = [old EXCEPT ![4] = old[4] + 1, ![5] = 0]
                     /\ ThousandState(sevSegDispArr', BOT_ROW) = 1
             /\ old[5] = 9 /\ old[4] = 9
                  => /\ new = [i \in BOT_DISPS |->
                                 CASE i = 5 -> (IF old[6] = 0 THEN OFF_CODE ELSE old[6])
                                   [] i = 6 -> old[7]
                                   [] OTHER -> OFF_CODE]
                     /\ ThousandState(sevSegDispArr', BOT_ROW) = 0
             /\ old[5] < 9
                  => /\ new = [old EXCEPT ![5] = old[5] + 1]
                     /\ ThousandState(sevSegDispArr', BOT_ROW) = 1
             /\ DecPoints(sevSegDispArr', BOT_DISPS) = DecPoints(sevSegDispArr, BOT_DISPS)
             /\ SameRow(sevSegDispArr', sevSegDispArr, TOP_DISPS)
    ]_vars

\* HUNDRED has just been handled on the VTBI row showing 9 9 2 3 and left it
\* as blank 2 3 blank
C34_Witness ==
  /\ pc = "clearKp" /\ currKeyCoord = HUNDRED /\ FLAG_VTBI_EDIT \in currSysState
  /\ HexDigits(sevSegDispArr, BOT_DISPS) =
       [i \in BOT_DISPS |-> CASE i = 5 -> 2 [] i = 6 -> 3 [] OTHER -> OFF_CODE]
  /\ DecPoints(sevSegDispArr, BOT_DISPS) = [i \in BOT_DISPS |-> 0]

\* C35: the switch on TENTH while a row in the thousands state is edited always
\* takes the row out of the thousands state: the first display (thousands) is
\* overwritten, the hundreds, tens and ones digits move one display to the
\* left (a hundreds digit of 0 goes blank, a tens digit of 0 goes blank only
\* when the new first display is blank), the third display's decimal point
\* goes on and the fourth display shows 1.  The other row stays.
C35_TenthsLeavesThousands ==
  [][ MainStepAt("dispatch") /\ currKeyCoord = TENTH /\ Editing
        /\ ThousandState(sevSegDispArr, EditedRow) = 1
      => LET b    == RowBase(EditedRow)
             old  == sevSegDispArr
             hund == IF old[b + 1].hexDigit = 0 THEN OFF_CODE ELSE old[b + 1].hexDigit
         IN  /\ sevSegDispArr'[b].hexDigit = hund
             /\ sevSegDispArr'[b + 1].hexDigit =
                  IF old[b + 2].hexDigit = 0 /\ hund = OFF_CODE
                  THEN OFF_CODE ELSE old[b + 2].hexDigit
             /\ sevSegDispArr'[b + 2].hexDigit = old[b + 3].hexDigit
             /\ sevSegDispArr'[b + 3].hexDigit = 1
             /\ \A i \in b .. b + 3 : sevSegDispArr'[i].dp = IF i = b + 2 THEN 1 ELSE 0
             /\ ThousandState(sevSegDispArr', EditedRow) = 0
             /\ SameRow(sevSegDispArr', sevSegDispArr,
                        IF EditedRow # 0 THEN TOP_DISPS ELSE BOT_DISPS)
    ]_vars

\* TENTH is committed with the VTBI row showing 1 2 0 3 in the thousands state
\* and the switch is about to handle it
C35_Witness ==
  /\ pc = "dispatch" /\ currKeyCoord = TENTH /\ FLAG_VTBI_EDIT \in currSysState
  /\ HexDigits(sevSegDispArr, BOT_DISPS) =
       [i \in BOT_DISPS |-> CASE i = 4 -> 1 [] i = 5 -> 2 [] i = 6 -> 0 [] OTHER -> 3]
  /\ DecPoints(sevSegDispArr, BOT_DISPS) = [i \in BOT_DISPS |-> 0]

\* C36: every power-button edge the ISR accepts is handled once by the main
\* loop.  Power-button interrupts are masked only while FLAG_PWR_OFF differs
\* between currSysState and prevSysState, that is while the power handling of
\* lines 549-586 is still to run or running; FLAG_PWR_OFF changes in
\* currSysState only in pwrbtnPressISR, which masks the power-button interrupt,
\* stops the debounce timer, clears FLAG_KEYPAD_PRESS in both bytes, resets
\* the edge select to L->H and disables the row interrupts; the interrupt is
\* unmasked only at the end of the power handling, when FLAG_PWR_OFF agrees in
\* both bytes.
C36_PowerEdgeHandled ==
  /\ [](~pwrIE => PwrEvent)
  /\ [][ (FLAG_PWR_OFF \in currSysState) # (FLAG_PWR_OFF \in currSysState')
         => /\ pwrIE /\ pwrIFG /\ ~pwrIE'
            /\ TA0CCR0' = 0
            /\ FLAG_KEYPAD_PRESS \notin currSysState' \cup prevSysState'
            /\ ~rowIES' /\ ~rowIE'
     ]_vars
  /\ [][ ~pwrIE /\ pwrIE' => pc = "pwrSync" /\ pc' = "poll" /\ ~PwrEvent' ]_vars

\* C37: while the panel is OFF (FLAG_PWR_OFF set in both currSysState and
\* prevSysState) the keypad is inert: the row interrupts are disabled and the
\* debounce timer is stopped, and no step that leaves the panel OFF changes
\* the pending or committed key coordinate, a flag of currSysState other than
\* FLAG_KEYPAD_PRESS, a display object, a shown display byte or an LED pattern.
C37_OffKeypadInert ==
  /\ [](PanelOff => ~rowIE /\ TA0CCR0 = 0)
  /\ [][ PanelOff /\ PanelOff'
         => /\ UNCHANGED << currKeyCoord, pendingKeyCoord, dispVars, ledVars >>
            /\ currSysState' \ {FLAG_KEYPAD_PRESS} = currSysState \ {FLAG_KEYPAD_PRESS}
     ]_vars

\* the power-on has been handled: FLAG_PWR_OFF is clear in both bytes
PanelOn == FLAG_PWR_OFF \notin currSysState \cup prevSysState

\* C38: the keypad is never dead while the panel is ON: there is no state in
\* which FLAG_PWR_OFF is clear in both bytes, the main loop is at the tests of
\* lines 305 and 549, the debounce timer is stopped, FLAG_KEYPAD_PRESS agrees
\* in both bytes and the row interrupts are disabled.
C38_KeypadNeverDead ==
  PanelOn /\ BetweenOperations /\ TA0CCR0 = 0 /\ ~KeypadEvent => rowIE

\* the displays of a row
RowDisps(botRow) == IF botRow # 0 THEN BOT_DISPS ELSE TOP_DISPS

\* the subscripts of displayArr that the hundreds case evaluates (lines 825-873)
HundredsSubscripts(a, idx, nextHexCode, botRow, thousandState) ==
  IF nextHexCode > 9 /\ (nextHexCode - 1) # OFF_CODE
  THEN IF botRow = 0 THEN {idx + 1, idx}
       ELSE IF thousandState = 0 THEN {idx + 3, idx + 2, idx + 1, idx}
       ELSE IF a[idx - 1].hexDigit = 9 THEN {idx - 1, idx, idx + 1, idx + 2}
       ELSE {idx - 1, idx}
  ELSE {idx + 1, idx + 2, idx}

\* the subscripts the tenths case evaluates (lines 892-922); idx0 is the index
\* line 819 computed
TenthsSubscripts(idx0, nextHexCode, thousandState) ==
  IF thousandState # 0
  THEN {idx0 - 4, idx0 - 3, idx0 - 2, idx0 - 1}
  ELSE IF (nextHexCode - 1) = OFF_CODE \/ nextHexCode > 9
  THEN {idx0 - 1, idx0}
  ELSE {idx0}

\* every subscript of displayArr that incDispRow itself evaluates, from the
\* thousands-state test of lines 814-817 and the read of line 820 to the
\* write of line 927
IncSubscripts(a, digitPos, botRow, oob) ==
  LET thousandState == ThousandState(a, botRow)
      idx0          == IncTargetIndex(a, digitPos, botRow)
      nextHexCode   == (IncReadHex(a, idx0, oob) + 1) % 256
  IN  (IF botRow # 0 THEN {6, 7} ELSE {2, 3})
        \cup {idx0}
        \cup CASE digitPos = HUNDREDS_PLACE ->
                    HundredsSubscripts(a, idx0, nextHexCode, botRow, thousandState)
               [] digitPos = TENS_PLACE ->
                    (IF (nextHexCode - 1) # OFF_CODE /\ nextHexCode > 9
                     THEN {idx0 - 1, idx0} ELSE {idx0})
               [] digitPos = ONES_PLACE -> {idx0}
               [] OTHER -> TenthsSubscripts(idx0, nextHexCode, thousandState)

\* C39: whenever the switch is about to call incDispRow (a numeric key is
\* committed while a row is edited), every subscript of the 8-entry display
\* array that incDispRow evaluates lies inside the edited row: 0..3 for the
\* RATE row, 4..7 for the VTBI row.
C39_SubscriptsInsideRow ==
  pc = "dispatch" /\ currKeyCoord \in NumericKeys /\ Editing
    => \A oob \in {0, 255} :
         IncSubscripts(sevSegDispArr, KeyPlace(currKeyCoord), EditedRow, oob)
           \subseteq RowDisps(EditedRow)

\* the content of a row agrees with its value flag: the flag is set iff no
\* display of the row holds DASH, and then every display holds a digit 0-9 or
\* OFF and the ones position (the third display, the fourth in the thousands
\* state) is not OFF
RowLegal(sys, a, valueFlag, botRow) ==
  /\ valueFlag \in sys <=> \A i \in RowDisps(botRow) : a[i].hexDigit # DASH_CODE
  /\ valueFlag \in sys
       => /\ \A i \in RowDisps(botRow) : a[i].hexDigit \in (0 .. 9) \cup {OFF_CODE}
          /\ a[RowBase(botRow) + 2 + ThousandState(a, botRow)].hexDigit # OFF_CODE

====
